---- MODULE Spec2Model ----
(***************************************************************************)
(* Model of cloudflare-ddns: the record cache (src/src/cloudflare/cache.rs),*)
(* the Cloudflare API client (src/src/cloudflare.rs) and the reconciliation *)
(* run with its address-suffix rewriting (src/src/main.rs).                 *)
(*                                                                         *)
(* Domain names, record types and identifiers are TLA+ strings (the cache   *)
(* key is built by concatenation, as format! does).  Addresses are          *)
(* sequences of one-character strings, so that split and join are computed. *)
(***************************************************************************)
EXTENDS Integers, Sequences, FiniteSets, TLC

VARIABLES
    zones,        \* Cache.zones: Vec<String>
    dns_records,  \* Cache.dns_records: HashMap<String, DnsRecord>
    pzones,       \* provider: the zone ids GET zones returns, in API order
    remote,       \* provider: zone id -> the records GET dns_records lists
    pc,           \* position of the process
    ncalls,       \* client calls made so far (client specification)
    call,         \* the last client call: inputs, requests, result, caches,
                  \* and the listings the provider held when it was made
    prev,         \* the client call before it: operation, key, requests
    domains,      \* update_domains: the registrations read from domains.json
    idx,          \* update_domains: index of the registration being processed
    v4_ip,        \* update_domains: discovered public IPv4 address
    v6_ip,        \* update_domains: discovered public IPv6 address
    force,        \* update_domains: the --force flag
    config,       \* config entries last_ipv4, last_ipv6, last_update
    now,          \* seconds since the epoch at the start of the run
    last,         \* the last (domain, type) pair processed by the run
    puts,         \* cache key -> PUT requests issued for that pair in the run
    attempted,    \* cache keys whose record the run has tried to resolve
    zonesFailed,  \* a GET zones request of the run has failed
    hist,         \* the operations performed on the cache, when called directly
    domains_file, \* the content of the domains.json file
    config_file   \* the content of the config file

vars == <<zones, dns_records, pzones, remote, pc, ncalls, call, prev, domains,
          idx, v4_ip, v6_ip, force, config, now, last, puts, attempted,
          zonesFailed, hist, domains_file, config_file>>

clientVars == <<ncalls, call, prev>>
runVars == <<domains, idx, v4_ip, v6_ip, force, config, now, last, puts,
             attempted, zonesFailed>>
fileVars == <<domains_file, config_file>>

\* a file that does not exist
NoFile == [kind |-> "missing"]
NoFiles == domains_file = NoFile /\ config_file = NoFile

----------------------------------------------------------------------------
(* Bounds of the model *)

\* the provider account holds at most this many zones
MaxZones == 2
\* the client specification makes at most this many client calls
MaxCalls == 2
\* domains.json holds at most this many registrations
MaxDomains == 2
\* the cache specification performs at most this many cache operations
MaxOps == 3

----------------------------------------------------------------------------
(* Strings as the code handles them *)

\* a function that returned v / a function that panicked (the process dies)
Returned(v) == [panic |-> FALSE, val |-> v]
Panicked == [panic |-> TRUE]

RECURSIVE SplitFrom(_, _, _)
\* str::split(sep) for a one-character separator: cur is the piece being read
SplitFrom(s, sep, cur) ==
    IF s = <<>> THEN <<cur>>
    ELSE IF Head(s) = sep THEN <<cur>> \o SplitFrom(Tail(s), sep, <<>>)
    ELSE SplitFrom(Tail(s), sep, Append(cur, Head(s)))

Split(s, sep) == SplitFrom(s, sep, <<>>)

RECURSIVE SplitPairFrom(_, _, _)
\* str::split("::"): leftmost non-overlapping matches of the two-character
\* pattern made of sep twice
SplitPairFrom(s, sep, cur) ==
    IF s = <<>> THEN <<cur>>
    ELSE IF Len(s) >= 2 /\ s[1] = sep /\ s[2] = sep
         THEN <<cur>> \o SplitPairFrom(SubSeq(s, 3, Len(s)), sep, <<>>)
    ELSE SplitPairFrom(Tail(s), sep, Append(cur, Head(s)))

SplitPair(s, sep) == SplitPairFrom(s, sep, <<>>)

\* str::contains("::")
ContainsPair(s, sep) == \E i \in 1..(Len(s) - 1) : s[i] = sep /\ s[i + 1] = sep

RECURSIVE Join(_, _)
\* [&str]::join(sep)
Join(parts, sep) ==
    IF parts = <<>> THEN <<>>
    ELSE IF Len(parts) = 1 THEN parts[1]
    ELSE parts[1] \o <<sep>> \o Join(Tail(parts), sep)

\* the literal "0000" pushed by replace_ipv6_suffix
ZeroGroup == <<"0", "0", "0", "0">>

\* Vec::splice(len - n.., suffix_parts): len - n underflows when the suffix
\* has more parts than the address; the subtraction panics in a debug build
\* and the wrapped range start is out of bounds in a release build, so both
\* builds panic.
SpliceTail(parts, suffix_parts) ==
    IF Len(suffix_parts) > Len(parts) THEN Panicked
    ELSE Returned(SubSeq(parts, 1, Len(parts) - Len(suffix_parts)) \o suffix_parts)

\* replace_ipv4_suffix putting the suffix in place of the leading parts
ReplaceIpv4Leading(ip, suffix) ==
    Returned(Join(Split(suffix, ".")
                  \o SubSeq(Split(ip, "."), Len(Split(suffix, ".")) + 1,
                            Len(Split(ip, "."))), "."))

replace_ipv4_suffix(ip, suffix) ==
    LET ip_parts == Split(ip, ".")
        suffix_parts == Split(suffix, ".")
        spliced == SpliceTail(ip_parts, suffix_parts)
    IN  IF spliced.panic THEN Panicked ELSE Returned(Join(spliced.val, "."))

\* the expansion of "::" in replace_ipv6_suffix.  8 - prefix - suffix is
\* usize arithmetic: when it underflows a debug build panics and a release
\* build wraps to about 2^64 and dies pushing "0000" groups, so either way
\* the process does not survive.
ExpandIpv6(ip) ==
    IF ~ContainsPair(ip, ":") THEN Returned(ip)
    ELSE LET ip_parts == SplitPair(ip, ":")
             suffix_parts == Split(ip_parts[2], ":")
             prefix_parts == Split(ip_parts[1], ":")
             missing_parts == 8 - Len(prefix_parts) - Len(suffix_parts)
         IN  IF missing_parts < 0 THEN Panicked
             ELSE Returned(Join(prefix_parts
                                \o [i \in 1..missing_parts |-> ZeroGroup]
                                \o suffix_parts, ":"))

replace_ipv6_suffix(ip, suffix) ==
    LET ip_str == ExpandIpv6(ip)
    IN  IF ip_str.panic THEN Panicked
        ELSE LET ip_parts == Split(ip_str.val, ":")
                 suffix_parts == Split(suffix, ":")
                 spliced == SpliceTail(ip_parts, suffix_parts)
             IN  IF spliced.panic THEN Panicked
                 ELSE Returned(Join(spliced.val, ":"))

----------------------------------------------------------------------------
(* Option<T>: None is the empty sequence, Some(v) a sequence of one value *)

NoneOpt == <<>>
Some(v) == <<v>>

\* Option::unwrap_or
UnwrapOr(opt, default) == IF opt = NoneOpt THEN default ELSE opt[1]

----------------------------------------------------------------------------
(* src/src/cloudflare/cache.rs: a cache is [zones, dns_records] *)

\* Cache::new
NewCache == [zones |-> <<>>, dns_records |-> <<>>]

\* the key format!("{}_{}", record_type, domain)
CacheKey(domain, record_type) == record_type \o "_" \o domain

get_zones(c) == c.zones

\* get_dns_record looking up the key with its two parts exchanged
GetRecordSwappedKey(c, domain, record_type) ==
    IF CacheKey(record_type, domain) \in DOMAIN c.dns_records
    THEN Some(c.dns_records[CacheKey(record_type, domain)])
    ELSE NoneOpt

get_dns_record(c, domain, record_type) ==
    IF CacheKey(domain, record_type) \in DOMAIN c.dns_records
    THEN Some(c.dns_records[CacheKey(domain, record_type)])
    ELSE NoneOpt

\* zones_cached asking for more than one zone
ZonesCachedWhenSeveral(c) == Len(c.zones) > 1

zones_cached(c) == c.zones # <<>>

add_zone(c, zone_id) == [c EXCEPT !.zones = Append(@, zone_id)]

\* set_dns_record keeping the entry the key already has
SetIfAbsent(c, domain, record_type, record_id, zone_id, content) ==
    [c EXCEPT !.dns_records =
        @ @@ (CacheKey(domain, record_type) :>
                 [id |-> record_id, zone_id |-> zone_id, content |-> content])]

set_dns_record(c, domain, record_type, record_id, zone_id, content) ==
    [c EXCEPT !.dns_records =
        (CacheKey(domain, record_type) :>
            [id |-> record_id, zone_id |-> zone_id, content |-> content]) @@ @]

----------------------------------------------------------------------------
(* The provider and one HTTP exchange *)

\* the requests the client sends
ReqZones == [method |-> "GET", path |-> "zones", body |-> <<>>]
ReqRecords(zone) ==
    [method |-> "GET",
     path |-> "zones/" \o zone \o "/dns_records?type=A&type=AAAA",
     body |-> <<>>]
\* ReqPut with the zone id and the record id exchanged in the path
ReqPutSwapped(zone, id, content) ==
    [method |-> "PUT",
     path |-> "zones/" \o id \o "/dns_records/" \o zone,
     body |-> <<content>>]

ReqPut(zone, id, content) ==
    [method |-> "PUT",
     path |-> "zones/" \o zone \o "/dns_records/" \o id,
     body |-> <<content>>]

\* What the provider and the transport do to the requests of one handler:
\* request number o.fail (0: none) fails, as o.kind says: "err" is a
\* transport error, an undecodable body or success = false, and "nores" is
\* success = true with no result; a PUT the provider accepts echoes o.echo (None:
\* the requested content), which becomes the record's content.
OutcomeAt(o, n) == IF o.fail = n THEN o.kind ELSE "ok"

\* the content a successful PUT of content echoes
EchoOf(o, content) == IF o.echo = NoneOpt THEN content ELSE o.echo[1]

Ok(v) == [kind |-> "Ok", val |-> v]
Err(e) == [kind |-> "Err", err |-> e]
Panic == [kind |-> "Panic"]

\* fetch_cloudflare_api and put_cloudflare_api after the exchange: every
\* failure but one becomes an Err; success = true without a result reaches
\* api_response.result.unwrap(), which panics.
ApiResult(outcome, payload) ==
    IF outcome = "ok" THEN Ok(payload)
    ELSE IF outcome = "err" THEN Err("Error in request to Cloudflare API")
    ELSE Panic

fetch_cloudflare_api(outcome, payload) == ApiResult(outcome, payload)

put_cloudflare_api(outcome, payload) == ApiResult(outcome, payload)

----------------------------------------------------------------------------
(* src/src/cloudflare.rs: CloudflareApi over a cache c and a provider p =    *)
(* [zones, records]; o is the oracle of the handler and n0 the number of     *)
(* requests the handler has sent before the call.  Each function returns     *)
(* the cache, its result and the requests it sent.                           *)

\* AddZones keeping only the first zone of the response
AddFirstZoneOnly(c, zs) == IF zs = <<>> THEN c ELSE add_zone(c, Head(zs))

RECURSIVE AddZones(_, _)
\* zones.iter().for_each(|zone| self.cache.add_zone(zone.id.clone()))
AddZones(c, zs) ==
    IF zs = <<>> THEN c ELSE AddZones(add_zone(c, Head(zs)), Tail(zs))

fetch_cloudflare_zones(c, p, o, n0) ==
    IF ~zones_cached(c)
    THEN LET api_response == fetch_cloudflare_api(OutcomeAt(o, n0 + 1), p.zones)
         IN  IF api_response.kind = "Ok"
             THEN LET c2 == AddZones(c, api_response.val)
                  IN  [cl |-> c2, res |-> Ok(get_zones(c2)), reqs |-> <<ReqZones>>]
             ELSE [cl |-> c, res |-> api_response, reqs |-> <<ReqZones>>]
    ELSE [cl |-> c, res |-> Ok(get_zones(c)), reqs |-> <<>>]

\* StoreRecords keeping only the first record of a listing
StoreFirstRecordOnly(c, zone, records) ==
    IF records = <<>> THEN c
    ELSE set_dns_record(c, records[1].name, records[1].record_type,
                        records[1].id, zone, records[1].content)

RECURSIVE StoreRecords(_, _, _)
\* for record in dns_records.iter() { self.cache.set_dns_record(..) }
StoreRecords(c, zone, records) ==
    IF records = <<>> THEN c
    ELSE LET record == Head(records)
         IN  StoreRecords(set_dns_record(c, record.name, record.record_type,
                                         record.id, zone, record.content),
                          zone, Tail(records))

\* GET zones/{zone}/dns_records?type=A&type=AAAA as request number n
ListRecords(p, zone, o, n) ==
    fetch_cloudflare_api(OutcomeAt(o, n), p.records[zone])

\* what r did, with the requests earlier sent before its own
WithEarlier(earlier, r) == [r EXCEPT !.reqs = earlier \o @]

RECURSIVE FetchZoneRecords(_, _, _, _, _)
\* for zone in zones.iter() { .. }: the first failing GET returns
FetchZoneRecords(c, p, zs, o, n0) ==
    IF zs = <<>> THEN [cl |-> c, res |-> Ok(<<>>), reqs |-> <<>>]
    ELSE IF ListRecords(p, Head(zs), o, n0 + 1).kind # "Ok"
    THEN [cl |-> c, res |-> ListRecords(p, Head(zs), o, n0 + 1),
          reqs |-> <<ReqRecords(Head(zs))>>]
    ELSE WithEarlier(<<ReqRecords(Head(zs))>>,
             FetchZoneRecords(
                 StoreRecords(c, Head(zs), ListRecords(p, Head(zs), o, n0 + 1).val),
                 p, Tail(zs), o, n0 + 1))

\* self.cache.get_dns_record(..).ok_or("Unable to find record")
LookupRecord(c, domain, record_type) ==
    IF get_dns_record(c, domain, record_type) = NoneOpt
    THEN Err("Unable to find record")
    ELSE Ok(get_dns_record(c, domain, record_type)[1])

\* lines 102-123, once the zones zr and the loop lp over them are done
AfterRecords(zr, lp, domain, record_type) ==
    [cl |-> lp.cl,
     res |-> IF lp.res.kind # "Ok" THEN lp.res
             ELSE LookupRecord(lp.cl, domain, record_type),
     reqs |-> zr.reqs \o lp.reqs]

\* lines 97-123, once fetch_cloudflare_zones has returned zr
AfterZones(zr, p, domain, record_type, o, n0) ==
    IF zr.res.kind # "Ok" THEN zr
    ELSE AfterRecords(zr,
                      FetchZoneRecords(zr.cl, p, zr.res.val, o, n0 + Len(zr.reqs)),
                      domain, record_type)

\* fetch_cloudflare_dns_record without the cache check of line 96
AlwaysRefetch(c, p, domain, record_type, o, n0) ==
    AfterZones(fetch_cloudflare_zones(c, p, o, n0), p, domain, record_type, o, n0)

fetch_cloudflare_dns_record(c, p, domain, record_type, o, n0) ==
    IF get_dns_record(c, domain, record_type) = NoneOpt
    THEN AfterZones(fetch_cloudflare_zones(c, p, o, n0), p, domain, record_type,
                    o, n0)
    ELSE [cl |-> c, res |-> LookupRecord(c, domain, record_type), reqs |-> <<>>]

\* the provider after a PUT it accepted: the record holds the echoed content
ProviderPut(p, zone, id, content) ==
    [p EXCEPT !.records[zone] =
        [i \in 1..Len(@) |->
            IF @[i].id = id THEN [@[i] EXCEPT !.content = content] ELSE @[i]]]

\* StoreUpdated with the record id and the zone id exchanged
StoreUpdatedSwapped(c, domain, record_type, record, new_ip) ==
    set_dns_record(c, domain, record_type, record.zone_id, record.id, new_ip)

\* the cache write of a verified update (lines 161-170)
StoreUpdated(c, domain, record_type, record, new_ip) ==
    set_dns_record(c, domain, record_type, record.id, record.zone_id, new_ip)

\* UpdateMismatch with the verification left out
NoVerification(new_ip, content) == FALSE

\* new_ip != content (line 155)
UpdateMismatch(new_ip, content) == new_ip # content

\* lines 150-170, once the PUT has returned api_response; c2 is the cache a
\* verified update leaves
AfterPut(fr, p2, api_response, c2, domain, record_type, content, reqs) ==
    IF api_response.kind # "Ok"
    THEN [cl |-> fr.cl, provider |-> p2, res |-> api_response, reqs |-> reqs,
          mid |-> fr.cl]
    ELSE IF UpdateMismatch(api_response.val, content)
    THEN [cl |-> fr.cl, provider |-> p2, res |-> Err("Record not updated"),
          reqs |-> reqs, mid |-> fr.cl]
    ELSE [cl |-> c2, provider |-> p2,
          res |-> IF get_dns_record(c2, domain, record_type) = NoneOpt
                  THEN Err("Unable to fetch updated IP")
                  ELSE Ok(get_dns_record(c2, domain, record_type)[1]),
          reqs |-> reqs, mid |-> fr.cl]

\* lines 135-170, once fetch_cloudflare_dns_record has returned fr; outcome
\* is the outcome of the PUT and new_ip the content it echoes
AfterResolve(fr, p, domain, record_type, content, outcome, new_ip) ==
    IF fr.res.kind = "Panic"
    THEN [cl |-> fr.cl, provider |-> p, res |-> Panic, reqs |-> fr.reqs,
          mid |-> fr.cl]
    ELSE IF fr.res.kind = "Err"
    THEN [cl |-> fr.cl, provider |-> p,
          res |-> Err("Unable to find record for domain (Cause)"),
          reqs |-> fr.reqs, mid |-> fr.cl]
    ELSE AfterPut(fr,
                  IF outcome = "err" THEN p
                  ELSE ProviderPut(p, fr.res.val.zone_id, fr.res.val.id, new_ip),
                  put_cloudflare_api(outcome, new_ip),
                  StoreUpdated(fr.cl, domain, record_type, fr.res.val, new_ip),
                  domain, record_type, content,
                  fr.reqs \o <<ReqPut(fr.res.val.zone_id, fr.res.val.id, content)>>)

\* the outcome of the request a handler sends after the requests reqs
NextOutcome(o, n0, reqs) == OutcomeAt(o, n0 + Len(reqs) + 1)

\* lines 126-171, given what the resolve step fr did
UpdateWith(fr, p, domain, record_type, content, o, n0) ==
    AfterResolve(fr, p, domain, record_type, content,
                 NextOutcome(o, n0, fr.reqs), EchoOf(o, content))

\* returns the cache, the provider, the result, the requests and mid, the
\* cache as the resolve step left it
update_cloudflare_dns_record(c, p, domain, record_type, content, o, n0) ==
    UpdateWith(fetch_cloudflare_dns_record(c, p, domain, record_type, o, n0),
               p, domain, record_type, content, o, n0)

----------------------------------------------------------------------------
(* The values the model draws from *)

\* addresses: the discovered ones and the ones the provider holds at first
NewV4 == <<"1", ".", "2", ".", "3", ".", "4">>
OldV4 == <<"1", ".", "2", ".", "3", ".", "1">>
NewV6 == <<"a", ":", ":", "1">>
OldV6 == <<"a", ":", ":", "2">>

RecordTypes == {"A", "AAAA"}

DomainName(i) == "d" \o ToString(i) \o ".example"
ZoneId(i) == "z" \o ToString(i)
RecordId(i, k) == "r" \o ToString(i) \o ToString(k)

ZoneSeq(n) == [i \in 1..n |-> ZoneId(i)]

\* The listing of zone i.  Variant 1 lists the A record of the first domain;
\* variant 2 lists also its AAAA record and the A record of the second
\* domain.  The A record of an odd zone already holds the discovered address.
Listing(i, variant) ==
    LET a1 == [id |-> RecordId(i, 1), name |-> DomainName(1), record_type |-> "A",
               content |-> IF i % 2 = 1 THEN NewV4 ELSE OldV4]
        a6 == [id |-> RecordId(i, 2), name |-> DomainName(1),
               record_type |-> "AAAA", content |-> OldV6]
        b1 == [id |-> RecordId(i, 3), name |-> DomainName(2), record_type |-> "A",
               content |-> OldV4]
    IN  IF variant = 1 THEN <<a1>> ELSE <<a1, a6, b1>>

\* the provider accounts: up to MaxZones zones with distinct ids
Worlds ==
    { [zones |-> ZoneSeq(n),
       records |-> [z \in {ZoneId(i) : i \in 1..n} |->
                       LET i == CHOOSE k \in 1..n : ZoneId(k) = z
                       IN  Listing(i, v[i])]] :
        n \in 0..MaxZones, v \in [1..MaxZones -> {1, 2}] }

\* the content a PUT may echo instead of the requested one
Echoes == {NoneOpt, Some(OldV4)}

\* One oracle per way a handler can go: no request fails and the PUT, if one
\* is sent, echoes o.echo; or request number o.fail fails as o.kind says
\* and the handler sends nothing after it.
Oracles ==
    [fail : {0}, kind : {"err"}, echo : Echoes]
    \cup [fail : 1..(MaxZones + 2), kind : {"err", "nores"}, echo : {NoneOpt}]

----------------------------------------------------------------------------
(* The client specification: resolve and update calls on one client *)

\* the pairs and the contents the callers ask for
ClientPairs == {<<DomainName(1), "A">>, <<DomainName(1), "AAAA">>,
                <<DomainName(2), "A">>}
ClientContents == {NewV4, OldV4}

TheCache == [zones |-> zones, dns_records |-> dns_records]
TheProvider == [zones |-> pzones, records |-> remote]

\* What happened to the requests reqs a handler sent under oracle o: the
\* number of the request that failed (0: none) and how, and the content an
\* accepted PUT of content echoed (None: no PUT was accepted).
Exchange(o, reqs, content) ==
    [fail |-> IF o.fail \in 1..Len(reqs) THEN o.fail ELSE 0,
     kind |-> IF o.fail \in 1..Len(reqs) THEN o.kind ELSE "ok",
     echoed |-> IF /\ reqs # <<>>
                   /\ reqs[Len(reqs)].method = "PUT"
                   /\ o.fail \notin 1..Len(reqs)
                THEN Some(EchoOf(o, content)) ELSE NoneOpt]

NoExchange == [fail |-> 0, kind |-> "ok", echoed |-> NoneOpt]

NotResolved == [kind |-> "None"]

NoCall == [op |-> "none", domain |-> "", record_type |-> "", content |-> NoneOpt,
           before |-> NewCache, mid |-> NewCache, after |-> NewCache,
           res |-> NotResolved, reqs |-> <<>>, x |-> NoExchange,
           listed |-> <<>>]

\* what prev keeps of a call
Summary(c) == [op |-> c.op, domain |-> c.domain, record_type |-> c.record_type,
               reqs |-> c.reqs]

IdleRun ==
    /\ domains = <<>> /\ idx = 0 /\ v4_ip = <<>> /\ v6_ip = <<>>
    /\ force = FALSE /\ config = <<>> /\ now = 0 /\ last = <<>>
    /\ puts = <<>> /\ attempted = {} /\ zonesFailed = FALSE

ClientInit ==
    /\ zones = NewCache.zones
    /\ dns_records = NewCache.dns_records
    /\ \E w \in Worlds : pzones = w.zones /\ remote = w.records
    /\ pc = "ready"
    /\ ncalls = 0
    /\ call = NoCall
    /\ prev = Summary(NoCall)
    /\ hist = <<>> /\ NoFiles
    /\ IdleRun

\* the state after a client call that did r
ClientCalled(op, domain, record_type, content, r, o) ==
    /\ zones' = r.cl.zones
    /\ dns_records' = r.cl.dns_records
    /\ remote' = r.provider.records
    /\ call' = [op |-> op, domain |-> domain, record_type |-> record_type,
                content |-> content, before |-> TheCache, mid |-> r.mid,
                after |-> r.cl, res |-> r.res, reqs |-> r.reqs,
                x |-> Exchange(o, r.reqs, UnwrapOr(content, <<>>)),
                listed |-> remote]
    /\ pc' = IF r.res.kind = "Panic" THEN "panicked" ELSE "ready"
    /\ prev' = Summary(call)
    /\ ncalls' = ncalls + 1
    /\ UNCHANGED <<pzones, runVars, hist, fileVars>>

\* a resolve as a client call: it leaves the provider alone
AsCall(fr, p) == [cl |-> fr.cl, provider |-> p, res |-> fr.res, reqs |-> fr.reqs,
                  mid |-> fr.cl]

\* a caller's fetch_cloudflare_dns_record(domain, record_type)
Resolve ==
    /\ pc = "ready"
    /\ ncalls < MaxCalls
    /\ \E pair \in ClientPairs, o \in Oracles :
         ClientCalled("resolve", pair[1], pair[2], NoneOpt,
             AsCall(fetch_cloudflare_dns_record(TheCache, TheProvider, pair[1],
                                                pair[2], o, 0),
                    TheProvider),
             o)

\* a caller's update_cloudflare_dns_record(domain, record_type, content)
Update ==
    /\ pc = "ready"
    /\ ncalls < MaxCalls
    /\ \E pair \in ClientPairs, content \in ClientContents, o \in Oracles :
         ClientCalled("update", pair[1], pair[2], Some(content),
             update_cloudflare_dns_record(TheCache, TheProvider, pair[1],
                                          pair[2], content, o, 0),
             o)

ClientNext == Resolve \/ Update

ClientSpec == ClientInit /\ [][ClientNext]_vars

----------------------------------------------------------------------------
(* Properties of the client, over the last call *)

\* the cache entry of the pair of the last call, in cache c
EntryIn(c) == get_dns_record(c, call.domain, call.record_type)

\* how many times req is among reqs
Count(req, reqs) == Cardinality({i \in 1..Len(reqs) : reqs[i] = req})

\* the last call was an update whose PUT the provider accepted, echoing a
\* content other than the requested one
PutMismatch ==
    /\ call.op = "update"
    /\ call.x.echoed # NoneOpt
    /\ call.x.echoed[1] # call.content[1]

\* C1 as stated: an update whose PUT succeeds but echoes a different content
\* returns an error and leaves the cache entry of the pair as it was before
\* the call.
C1_Original ==
    PutMismatch =>
        /\ call.res.kind = "Err"
        /\ EntryIn(call.after) = EntryIn(call.before)

\* C1 amended: such an update returns the mismatch error and leaves the
\* whole cache as its own resolve step left it, with an entry for the pair;
\* the cache is as before the call whenever it held the entry already.
C1_MismatchKeepsResolvedCache ==
    PutMismatch =>
        /\ call.res = Err("Record not updated")
        /\ call.after = call.mid
        /\ EntryIn(call.after) # NoneOpt
        /\ EntryIn(call.before) # NoneOpt => call.after = call.before

C1_Witness ==
    /\ PutMismatch
    /\ EntryIn(call.before) # NoneOpt
    /\ EntryIn(call.before)[1].content # call.x.echoed[1]

\* the last call was an update whose PUT echoed the requested content
PutVerified ==
    /\ call.op = "update"
    /\ call.x.echoed = call.content

\* C2: after an update whose PUT echoes the requested content, the entry of
\* the pair holds that content with the record id and zone id resolved at
\* the start of the update, and the overwrite changes neither another entry
\* nor the zone list.
C2_VerifiedUpdateOverwritesEntry ==
    PutVerified =>
        LET key == CacheKey(call.domain, call.record_type)
        IN  /\ key \in DOMAIN call.mid.dns_records
            /\ call.after.dns_records[key] =
                   [id |-> call.mid.dns_records[key].id,
                    zone_id |-> call.mid.dns_records[key].zone_id,
                    content |-> call.content[1]]
            /\ call.after.zones = call.mid.zones
            /\ DOMAIN call.after.dns_records = DOMAIN call.mid.dns_records
            /\ \A k \in DOMAIN call.mid.dns_records \ {key} :
                   call.after.dns_records[k] = call.mid.dns_records[k]
            /\ call.res = Ok(call.after.dns_records[key])

C2_Witness ==
    /\ PutVerified
    /\ EntryIn(call.mid)[1].content # call.content[1]
    /\ Cardinality(DOMAIN call.after.dns_records) > 1

\* the last two calls were resolves of the same pair
ConsecutiveResolves ==
    /\ prev.op = "resolve"
    /\ call.op = "resolve"
    /\ prev.domain = call.domain
    /\ prev.record_type = call.record_type

\* GET zones at most once and GET dns_records at most once per zone
AtMostOnceEach(reqs) ==
    /\ Count(ReqZones, reqs) <= 1
    /\ \A i \in 1..Len(pzones) : Count(ReqRecords(pzones[i]), reqs) <= 1

\* C3 as stated: two consecutive resolves of one pair send GET zones at most
\* once and GET dns_records at most once per zone, whatever the provider
\* state.
C3_Original == ConsecutiveResolves => AtMostOnceEach(prev.reqs \o call.reqs)

\* C3 amended: when the first of two consecutive resolves of one pair left
\* an entry for the pair in the cache, the second sends no request, and the
\* two send GET zones at most once and GET dns_records at most once per zone.
C3_SecondResolveFromCache ==
    (ConsecutiveResolves /\ EntryIn(call.before) # NoneOpt) =>
        /\ call.reqs = <<>>
        /\ AtMostOnceEach(prev.reqs \o call.reqs)

C3_Witness ==
    /\ ConsecutiveResolves
    /\ EntryIn(call.before) # NoneOpt
    /\ Len(prev.reqs) > 2

\* some zone of the provider lists a record of the pair of the last call
Listed ==
    \E i \in 1..Len(pzones) : \E j \in 1..Len(remote[pzones[i]]) :
        /\ remote[pzones[i]][j].name = call.domain
        /\ remote[pzones[i]][j].record_type = call.record_type

\* the last call was a resolve that missed the cache and no request failed
CleanMiss ==
    /\ call.op = "resolve"
    /\ EntryIn(call.before) = NoneOpt
    /\ call.x.fail = 0

\* C4: a resolve answers from the cache, without a request, when the cache
\* holds the pair; on a miss whose requests all succeed it returns the entry
\* the population left, and fails with not-found exactly when no zone lists
\* a record of that name and type.
C4_ResolveAnswer ==
    /\ (call.op = "resolve" /\ EntryIn(call.before) # NoneOpt) =>
           /\ call.reqs = <<>>
           /\ call.res = Ok(EntryIn(call.before)[1])
           /\ call.after = call.before
    /\ CleanMiss =>
           /\ call.res = IF EntryIn(call.after) = NoneOpt
                         THEN Err("Unable to find record")
                         ELSE Ok(EntryIn(call.after)[1])
           /\ (call.res = Err("Unable to find record")) <=> ~Listed

C4_Witness ==
    /\ CleanMiss
    /\ call.res.kind = "Ok"
    /\ Len(call.reqs) > 2

\* C5: a resolve that misses the cache and whose requests all succeed sends
\* one GET dns_records per cached zone, in cache order, and leaves an entry
\* keyed by name and type for every record any zone returned.
C5_FullPopulation ==
    CleanMiss =>
        LET zs == call.after.zones
            first == IF call.before.zones = <<>> THEN <<ReqZones>> ELSE <<>>
        IN  /\ zs = pzones
            /\ call.reqs = first \o [i \in 1..Len(zs) |-> ReqRecords(zs[i])]
            /\ \A i \in 1..Len(zs) : \A j \in 1..Len(remote[zs[i]]) :
                   CacheKey(remote[zs[i]][j].name, remote[zs[i]][j].record_type)
                       \in DOMAIN call.after.dns_records

C5_Witness ==
    /\ CleanMiss
    /\ Len(call.after.zones) > 1
    /\ \E k \in DOMAIN call.after.dns_records :
           k # CacheKey(call.domain, call.record_type)

----------------------------------------------------------------------------
(* src/src/main.rs: the reconciliation run, update_domains *)

\* 60 * 60 * 12, the staleness window in seconds
TwelveHours == 43200

DigitChars == <<"0", "1", "2", "3", "4", "5", "6", "7", "8", "9">>

DigitValue(ch) == (CHOOSE i \in 1..Len(DigitChars) : DigitChars[i] = ch) - 1

\* A u64 is kept as its decimal digits, most significant first and without
\* leading zeros (zero is the empty sequence), so that values up to
\* 2^64 - 1 and their sums are computed exactly.
RECURSIVE StripZeros(_)
StripZeros(d) == IF d # <<>> /\ Head(d) = 0 THEN StripZeros(Tail(d)) ELSE d

RECURSIVE Digits(_)
\* the digits of a natural number
Digits(n) == IF n = 0 THEN <<>> ELSE Append(Digits(n \div 10), n % 10)

\* the k-th digit from the right, 0 beyond the first digit
DigitAt(d, k) == IF k <= Len(d) THEN d[Len(d) - k + 1] ELSE 0

\* a < b
BigLess(a, b) ==
    \/ Len(a) < Len(b)
    \/ /\ Len(a) = Len(b)
       /\ \E i \in 1..Len(a) : a[i] < b[i] /\ \A j \in 1..(i - 1) : a[j] = b[j]

RECURSIVE AddFrom(_, _, _, _)
\* the digits of a + b from the k-th on, with the carry into the k-th
AddFrom(a, b, k, carry) ==
    IF k > Len(a) /\ k > Len(b) THEN (IF carry = 0 THEN <<>> ELSE <<carry>>)
    ELSE Append(AddFrom(a, b, k + 1, (DigitAt(a, k) + DigitAt(b, k) + carry) \div 10),
                (DigitAt(a, k) + DigitAt(b, k) + carry) % 10)

BigAdd(a, b) == StripZeros(AddFrom(a, b, 1, 0))

RECURSIVE SubFrom(_, _, _, _)
\* the digits of a - b (a >= b) from the k-th on, with the borrow from the k-th
SubFrom(a, b, k, borrow) ==
    IF k > Len(a) THEN <<>>
    ELSE Append(SubFrom(a, b, k + 1,
                        IF DigitAt(a, k) - DigitAt(b, k) - borrow < 0 THEN 1 ELSE 0),
                (DigitAt(a, k) - DigitAt(b, k) - borrow + 10) % 10)

BigSub(a, b) == StripZeros(SubFrom(a, b, 1, 0))

\* u64::MAX = 2^64 - 1
U64Max == <<1, 8, 4, 4, 6, 7, 4, 4, 0, 7, 3, 7, 0, 9, 5, 5, 1, 6, 1, 5>>

\* a + b overflows a u64
AddOverflows(a, b) == BigLess(U64Max, BigAdd(a, b))

\* a + b modulo 2^64: the sum of a build without overflow checks
WrappingAdd(a, b) ==
    IF AddOverflows(a, b) THEN BigSub(BigAdd(a, b), BigAdd(U64Max, <<1>>))
    ELSE BigAdd(a, b)

\* the digits of a string of decimal digits, None when a character is not one
ParseDigits(s) ==
    IF \E k \in 1..Len(s) : \A i \in 1..Len(DigitChars) : DigitChars[i] # s[k]
    THEN NoneOpt
    ELSE Some(StripZeros([k \in 1..Len(s) |-> DigitValue(s[k])]))

\* v.parse::<u64>().ok(): an optional '+', then one or more digits, of a
\* value that fits a u64
ParseU64(s) ==
    LET digits == IF s # <<>> /\ Head(s) = "+" THEN Tail(s) ELSE s
    IN  IF digits = <<>> \/ ParseDigits(digits) = NoneOpt THEN NoneOpt
        ELSE IF BigLess(U64Max, ParseDigits(digits)[1]) THEN NoneOpt
        ELSE ParseDigits(digits)

\* Option::and_then(|v| v.parse::<u64>().ok())
ParseEntry(entry) == IF entry = NoneOpt THEN NoneOpt ELSE ParseU64(entry[1])

\* AddressesUnchanged without the test of --force
AddressesUnchangedAnyForce(cfg, ip4, ip6, f) ==
    /\ cfg.last_ipv4 = Some(ip4)
    /\ cfg.last_ipv6 = Some(ip6)

\* lines 222-224: the stored addresses are the discovered ones, no --force
AddressesUnchanged(cfg, ip4, ip6, f) ==
    /\ cfg.last_ipv4 = Some(ip4)
    /\ cfg.last_ipv6 = Some(ip6)
    /\ ~f

\* line 235, the left operand: last_update.unwrap_or(0)
LastUpdateOrZero(cfg) == UnwrapOr(ParseEntry(cfg.last_update), <<>>)

\* line 235: last_update.unwrap_or(0) + 60 * 60 * 12 > now, the sum taken
\* modulo 2^64
WithinWindow(cfg, t) ==
    BigLess(Digits(t), WrappingAdd(LastUpdateOrZero(cfg), Digits(TwelveHours)))

\* line 235: the u64 addition overflows
WindowOverflows(cfg) == AddOverflows(LastUpdateOrZero(cfg), Digits(TwelveHours))

\* The addition of line 235 is unchecked in the source: a build with
\* overflow checks (debug) panics on overflow, one without (release) wraps.
Builds == {"debug", "release"}

\* lines 222-241: the run returns before the loop
ShortCircuit(cfg, ip4, ip6, f, t) ==
    AddressesUnchanged(cfg, ip4, ip6, f) /\ WithinWindow(cfg, t)

\* lines 222-235: the run reaches the addition and it overflows
ShortCircuitOverflows(cfg, ip4, ip6, f) ==
    AddressesUnchanged(cfg, ip4, ip6, f) /\ WindowOverflows(cfg)

\* lines 222-241 in a build: the position of the process after them
AfterShortCircuit(build, cfg, ip4, ip6, f, t, regs) ==
    IF build = "debug" /\ ShortCircuitOverflows(cfg, ip4, ip6, f) THEN "panicked"
    ELSE IF ShortCircuit(cfg, ip4, ip6, f, t) THEN "skipped"
    ELSE IF regs = <<>> THEN "done" ELSE "v4"

NoReport == [kind |-> "none", old |-> <<>>, new |-> <<>>]
ReportNotFound == [kind |-> "No DNS Record Found", old |-> <<>>, new |-> <<>>]
ReportFailed == [kind |-> "Failed to update DNS Record", old |-> <<>>, new |-> <<>>]
ReportTransition(old_ip, new_ip) ==
    [kind |-> "transition", old |-> old_ip, new |-> new_ip]

\* NeedsUpdate with the comparison inverted
UpdateWhenEqual(old_ip, new_ip, f) == old_ip = new_ip \/ f

\* NeedsUpdate ignoring the comparison
AlwaysUpdate(old_ip, new_ip, f) == TRUE

\* line 294: old_ip != new_ip || *force
NeedsUpdate(old_ip, new_ip, f) == old_ip # new_ip \/ f

\* lines 295-303, once update_cloudflare_dns_record has returned ur
AfterUpdate(fr, ur, new_ip) ==
    [cl |-> ur.cl, provider |-> ur.provider, panic |-> ur.res.kind = "Panic",
     report |-> IF ur.res.kind = "Panic" THEN NoReport
                ELSE IF ur.res.kind = "Err" THEN ReportFailed
                ELSE ReportTransition(fr.res.val.content, new_ip),
     reqs |-> ur.reqs, resolved |-> fr.res, mid |-> fr.cl]

\* what a pair does without touching the provider: it panics, or reports
Outcome(fr, p, panicked, report) ==
    [cl |-> fr.cl, provider |-> p, panic |-> panicked, report |-> report,
     reqs |-> fr.reqs, resolved |-> fr.res, mid |-> fr.cl]

\* lines 293-305: the record was found
AfterFound(fr, p, name, record_type, new_ip, f, o) ==
    IF NeedsUpdate(fr.res.val.content, new_ip, f)
    THEN AfterUpdate(fr,
             WithEarlier(fr.reqs,
                 update_cloudflare_dns_record(fr.cl, p, name, record_type,
                                              new_ip, o, Len(fr.reqs))),
             new_ip)
    ELSE Outcome(fr, p, FALSE, NoReport)

\* AfterFetch with a failed resolve ending the run
AfterFetchAborting(fr, p, name, record_type, new_ip, f, o) ==
    IF fr.res.kind # "Ok" THEN Outcome(fr, p, TRUE, NoReport)
    ELSE AfterFound(fr, p, name, record_type, new_ip, f, o)

\* lines 283-305, once fetch_cloudflare_dns_record has returned fr: the
\* unwrap_or of line 286 turns every Err into "No DNS Record Found"
AfterFetch(fr, p, name, record_type, new_ip, f, o) ==
    IF fr.res.kind = "Panic" THEN Outcome(fr, p, TRUE, NoReport)
    ELSE IF fr.res.kind = "Err" THEN Outcome(fr, p, FALSE, ReportNotFound)
    ELSE AfterFound(fr, p, name, record_type, new_ip, f, o)

check_and_conditionally_update_domain(c, p, name, record_type, new_ip, f, o) ==
    AfterFetch(fetch_cloudflare_dns_record(c, p, name, record_type, o, 0),
               p, name, record_type, new_ip, f, o)

\* lines 245-248 and 260-263: the desired content of a registration
NewIpV4(reg, ip) ==
    IF reg.v4_suffix = NoneOpt THEN Returned(ip)
    ELSE replace_ipv4_suffix(ip, reg.v4_suffix[1])

NewIpV6(reg, ip) ==
    IF reg.v6_suffix = NoneOpt THEN Returned(ip)
    ELSE replace_ipv6_suffix(ip, reg.v6_suffix[1])

\* DomainRegistration::new
Registration(domain, disable_v4, v4_suffix, disable_v6, v6_suffix) ==
    [domain |-> domain, v4_disabled |-> disable_v4, v4_suffix |-> v4_suffix,
     v6_disabled |-> disable_v6, v6_suffix |-> v6_suffix]

\* the number of PUT requests among reqs
CountPuts(reqs) == Cardinality({i \in 1..Len(reqs) : reqs[i].method = "PUT"})

PutsOf(key) == IF key \in DOMAIN puts THEN puts[key] ELSE 0

NoPair == [domain |-> "", record_type |-> "", new_ip |-> <<>>, panic |-> FALSE,
           report |-> NoReport, reqs |-> <<>>, resolved |-> NotResolved,
           before |-> NewCache, mid |-> NewCache, after |-> NewCache,
           x |-> NoExchange, zones_failed |-> FALSE, prev_zones_failed |-> FALSE]

\* the position after the AAAA record of registration idx: the next
\* registration, or the end of the loop
AfterRegistration == IF idx < Len(domains) THEN "v4" ELSE "done"

\* the state after check_and_conditionally_update_domain did r for a pair
Checked(name, record_type, new_ip, r, o, next_pc, next_idx) ==
    /\ zones' = r.cl.zones
    /\ dns_records' = r.cl.dns_records
    /\ remote' = r.provider.records
    /\ last' = [domain |-> name, record_type |-> record_type, new_ip |-> new_ip,
                panic |-> r.panic, report |-> r.report, reqs |-> r.reqs,
                resolved |-> r.resolved, before |-> TheCache, mid |-> r.mid,
                after |-> r.cl, x |-> Exchange(o, r.reqs, new_ip),
                zones_failed |-> /\ r.reqs # <<>>
                                 /\ r.reqs[1] = ReqZones
                                 /\ OutcomeAt(o, 1) # "ok",
                prev_zones_failed |-> last.zones_failed]
    /\ puts' = (CacheKey(name, record_type) :>
                   (PutsOf(CacheKey(name, record_type)) + CountPuts(r.reqs))) @@ puts
    /\ attempted' = attempted \cup {CacheKey(name, record_type)}
    /\ zonesFailed' = (zonesFailed \/ last'.zones_failed)
    /\ pc' = IF r.panic THEN "panicked" ELSE next_pc
    /\ idx' = IF r.panic THEN idx ELSE next_idx
    /\ UNCHANGED <<pzones, clientVars, hist, fileVars,
                   domains, v4_ip, v6_ip, force, config, now>>

\* the suffix rewrite of a pair panicked: the process dies before any request
RewritePanicked(name, record_type) ==
    /\ pc' = "panicked"
    /\ last' = [NoPair EXCEPT !.domain = name, !.record_type = record_type,
                              !.panic = TRUE, !.before = TheCache,
                              !.mid = TheCache, !.after = TheCache]
    /\ UNCHANGED <<zones, dns_records, pzones, remote, clientVars, hist, fileVars,
                   domains, idx,
                   v4_ip, v6_ip, force, config, now, puts, attempted, zonesFailed>>

\* one pair of the loop: the desired content, then the check
ProcessPair(name, record_type, new_ip, o, next_pc, next_idx) ==
    IF new_ip.panic THEN RewritePanicked(name, record_type)
    ELSE Checked(name, record_type, new_ip.val,
                 check_and_conditionally_update_domain(
                     TheCache, TheProvider, name, record_type, new_ip.val,
                     force, o),
                 o, next_pc, next_idx)

\* lines 213-241: the short-circuit decision
StartRun ==
    /\ pc = "start"
    /\ \E build \in Builds :
         pc' = AfterShortCircuit(build, config, v4_ip, v6_ip, force, now, domains)
    /\ idx' = 1
    /\ UNCHANGED <<zones, dns_records, pzones, remote, clientVars, hist, fileVars,
                   domains,
                   v4_ip, v6_ip, force, config, now, last, puts, attempted,
                   zonesFailed>>

\* lines 244-257 for a registration with v4 enabled
ProcessV4 ==
    /\ pc = "v4"
    /\ ~domains[idx].v4_disabled
    /\ \E o \in Oracles :
         ProcessPair(domains[idx].domain, "A", NewIpV4(domains[idx], v4_ip), o,
                     "v6", idx)

\* line 244 for a registration with v4 disabled
SkipV4 ==
    /\ pc = "v4"
    /\ domains[idx].v4_disabled
    /\ pc' = "v6"
    /\ UNCHANGED <<zones, dns_records, pzones, remote, clientVars, hist, fileVars,
                   domains, idx,
                   v4_ip, v6_ip, force, config, now, last, puts, attempted,
                   zonesFailed>>

\* lines 259-272 for a registration with v6 enabled
ProcessV6 ==
    /\ pc = "v6"
    /\ ~domains[idx].v6_disabled
    /\ \E o \in Oracles :
         ProcessPair(domains[idx].domain, "AAAA", NewIpV6(domains[idx], v6_ip), o,
                     AfterRegistration, idx + 1)

\* line 259 for a registration with v6 disabled
SkipV6 ==
    /\ pc = "v6"
    /\ domains[idx].v6_disabled
    /\ pc' = AfterRegistration
    /\ idx' = idx + 1
    /\ UNCHANGED <<zones, dns_records, pzones, remote, clientVars, hist, fileVars,
                   domains,
                   v4_ip, v6_ip, force, config, now, last, puts, attempted,
                   zonesFailed>>

\* the registrations of the model: the i-th is for the i-th domain name
V4Suffix == <<"9">>
V6Suffix == <<"b", ":", "c">>

RegistrationOf(i, k) ==
    IF k = 1 THEN Registration(DomainName(i), FALSE, NoneOpt, FALSE, NoneOpt)
    ELSE IF k = 2 THEN Registration(DomainName(i), FALSE, Some(V4Suffix), TRUE, NoneOpt)
    ELSE Registration(DomainName(i), TRUE, NoneOpt, FALSE, Some(V6Suffix))

RegistrationLists ==
    { [i \in 1..n |-> RegistrationOf(i, k[i])] :
        n \in 0..MaxDomains, k \in [1..MaxDomains -> {1, 2, 3}] }

\* the clock of the run, and stored last_update values within the window
\* and exactly twelve hours back
Now == TwelveHours + 100
FreshUpdate == <<"1", "0", "1">>
StaleUpdate == <<"1", "0", "0">>

StoredConfig(last_update) ==
    [last_ipv4 |-> Some(NewV4), last_ipv6 |-> Some(NewV6),
     last_update |-> Some(last_update)]

RunInit ==
    /\ zones = NewCache.zones
    /\ dns_records = NewCache.dns_records
    /\ \E w \in Worlds : pzones = w.zones /\ remote = w.records
    /\ pc = "start"
    /\ ncalls = 0 /\ call = NoCall /\ prev = Summary(NoCall)
    /\ hist = <<>> /\ NoFiles
    /\ domains \in RegistrationLists
    /\ idx = 0
    /\ v4_ip = NewV4
    /\ v6_ip = NewV6
    /\ \E f \in BOOLEAN, u \in {FreshUpdate, StaleUpdate} :
         /\ f => u = FreshUpdate
         /\ force = f
         /\ config = StoredConfig(u)
    /\ now = Now
    /\ last = NoPair
    /\ puts = <<>>
    /\ attempted = {}
    /\ zonesFailed = FALSE

RunNext == StartRun \/ ProcessV4 \/ SkipV4 \/ ProcessV6 \/ SkipV6

Spec == RunInit /\ [][RunNext]_vars

----------------------------------------------------------------------------
(* Properties of the run, over the last pair processed *)

LastKey == CacheKey(last.domain, last.record_type)

\* the registration of the last pair
LastRegistration ==
    domains[CHOOSE i \in 1..Len(domains) : domains[i].domain = last.domain]

\* the record of the last pair was resolved
ResolvedOk == last.resolved.kind = "Ok"

\* result is addr with its trailing groups replaced by those of suffix, out
\* of groups groups separated by sep
Rewritten(result, suffix, sep, groups) ==
    LET r == Split(result, sep)
        sfx == Split(suffix, sep)
    IN  /\ Len(r) = groups
        /\ SubSeq(r, groups - Len(sfx) + 1, groups) = sfx

\* the content the last pair asked for is the desired one: the discovered
\* address, with the suffix of the registration in place of its tail
DesiredContent ==
    IF last.record_type = "A"
    THEN IF LastRegistration.v4_suffix = NoneOpt THEN last.new_ip = v4_ip
         ELSE /\ Rewritten(last.new_ip, LastRegistration.v4_suffix[1], ".", 4)
              /\ Split(last.new_ip, ".")[1] = Split(v4_ip, ".")[1]
    ELSE IF LastRegistration.v6_suffix = NoneOpt THEN last.new_ip = v6_ip
         ELSE /\ Rewritten(last.new_ip, LastRegistration.v6_suffix[1], ":", 8)
              /\ Split(last.new_ip, ":")[1] = Split(v6_ip, ":")[1]

\* the last pair sent exactly one PUT, to its resolved record, with the
\* desired content as body, and it is the only PUT of the run for the pair
OnePutOfDesired ==
    /\ CountPuts(last.reqs) = 1
    /\ last.reqs[Len(last.reqs)] =
           ReqPut(last.resolved.val.zone_id, last.resolved.val.id, last.new_ip)
    /\ PutsOf(LastKey) = 1

\* C6: without --force, a pair whose resolved content differs from the
\* desired content (the discovered address, suffix-rewritten if a suffix is
\* set) gets exactly one PUT with the desired content, and the transition
\* old -> new is reported when the provider echoes that content.
C6_DifferingContentIsPut ==
    (~force /\ ResolvedOk /\ last.resolved.val.content # last.new_ip) =>
        /\ DesiredContent
        /\ OnePutOfDesired
        /\ last.x.echoed = Some(last.new_ip) =>
               last.report = ReportTransition(last.resolved.val.content,
                                              last.new_ip)

C6_Witness ==
    /\ ~force /\ ResolvedOk
    /\ last.resolved.val.content # last.new_ip
    /\ LastRegistration.v4_suffix # NoneOpt
    /\ last.record_type = "A"
    /\ last.report.kind = "transition"

\* C7: without --force, a pair whose resolved content equals the desired
\* content gets no PUT and no reported transition, and its cache entry
\* stays as resolved.
C7_EqualContentIsLeftAlone ==
    (~force /\ ResolvedOk /\ last.resolved.val.content = last.new_ip) =>
        /\ CountPuts(last.reqs) = 0
        /\ PutsOf(LastKey) = 0
        /\ last.report = NoReport
        /\ last.after = last.mid
        /\ get_dns_record(last.after, last.domain, last.record_type)
               = Some(last.resolved.val)
        /\ get_dns_record(last.before, last.domain, last.record_type) # NoneOpt
               => last.after = last.before

C7_Witness ==
    /\ ~force /\ ResolvedOk
    /\ last.resolved.val.content = last.new_ip
    /\ pc = "v6"

\* C8: with --force the run is never short-circuited, and every pair whose
\* record resolves gets exactly one PUT, equal content or not.
C8_ForceAlwaysUpdates ==
    force =>
        /\ pc # "skipped"
        /\ ResolvedOk => OnePutOfDesired

C8_Witness ==
    /\ force /\ ResolvedOk
    /\ last.resolved.val.content = last.new_ip
    /\ CountPuts(last.reqs) = 1
    /\ ShortCircuit(config, v4_ip, v6_ip, FALSE, now)

\* the run is over: the loop is done or the process has panicked
RunEnded == pc \in {"done", "panicked"}

\* C9 as stated: in a run that is not short-circuited every enabled pair of
\* every registration gets its resolve, whatever happened to earlier pairs,
\* no pair of a disabled family is resolved, and the run ends after the
\* last registration.
C9_EveryEnabledPairProcessed ==
    RunEnded =>
        /\ pc = "done"
        /\ \A i \in 1..Len(domains) :
               /\ (CacheKey(domains[i].domain, "A") \in attempted)
                      <=> ~domains[i].v4_disabled
               /\ (CacheKey(domains[i].domain, "AAAA") \in attempted)
                      <=> ~domains[i].v6_disabled

\* C10 as stated: once a GET zones request has failed, the run is aborted:
\* no further pair is resolved or updated and no request is sent.
C10_Original == [][zonesFailed => last' = last]_vars

\* C10 amended: a pair whose GET zones request fails sends nothing else and
\* leaves the cache alone; when the failure is an error the pair is reported
\* as not found and the run goes on to the next pair, whose resolve sends
\* GET zones again; the run stops only when the failure is a success
\* envelope without result, on which the process panics.
C10_ZonesFailureSkipsPair ==
    /\ last.zones_failed =>
           /\ last.reqs = <<ReqZones>>
           /\ last.after = last.before
           /\ IF last.x.kind = "err"
              THEN /\ last.report = ReportNotFound
                   /\ pc \in {"v4", "v6", "done"}
              ELSE pc = "panicked"
    /\ last.prev_zones_failed => (last.reqs # <<>> /\ last.reqs[1] = ReqZones)

C10_Witness ==
    /\ last.prev_zones_failed
    /\ ResolvedOk
    /\ CountPuts(last.reqs) = 1

----------------------------------------------------------------------------
(* The run over the stored config entries: the short-circuit of update_domains *)

\* the decimal text of a u64, as the config file holds it
Chars(d) == IF d = <<>> THEN <<"0">> ELSE [k \in 1..Len(d) |-> DigitChars[d[k] + 1]]

\* The stored last_update entries: missing, empty, not a number, within the
\* window, exactly twelve hours back, older, later than the clock, the
\* largest value whose sum fits a u64, the smallest whose sum does not,
\* u64::MAX, and 2^64, which parse::<u64> rejects.
StoredUpdates ==
    {NoneOpt, Some(<<>>), Some(<<"x">>), Some(FreshUpdate), Some(StaleUpdate),
     Some(<<"9", "9">>), Some(Chars(Digits(Now + 1))),
     Some(Chars(BigSub(U64Max, Digits(TwelveHours)))),
     Some(Chars(BigSub(U64Max, Digits(TwelveHours - 1)))),
     Some(Chars(U64Max)), Some(Chars(BigAdd(U64Max, <<1>>)))}

\* the stored last address entries: missing, the discovered one, another one
StoredAddresses(discovered, other) == {NoneOpt, Some(discovered), Some(other)}

\* the registrations of these runs: one with v4 only, one with v6 only
WindowRegistrations == <<RegistrationOf(1, 2), RegistrationOf(2, 3)>>

WindowInit ==
    /\ zones = NewCache.zones
    /\ dns_records = NewCache.dns_records
    /\ pzones = ZoneSeq(1)
    /\ remote = (ZoneId(1) :> Listing(1, 2))
    /\ pc = "start"
    /\ ncalls = 0 /\ call = NoCall /\ prev = Summary(NoCall)
    /\ hist = <<>> /\ NoFiles
    /\ domains = WindowRegistrations
    /\ idx = 0
    /\ v4_ip = NewV4
    /\ v6_ip = NewV6
    /\ force \in BOOLEAN
    /\ config \in [last_ipv4 : StoredAddresses(NewV4, OldV4),
                   last_ipv6 : StoredAddresses(NewV6, OldV6),
                   last_update : StoredUpdates]
    /\ now = Now
    /\ last = NoPair
    /\ puts = <<>>
    /\ attempted = {}
    /\ zonesFailed = FALSE

WindowSpec == WindowInit /\ [][RunNext]_vars

\* less than twelve hours have elapsed at t since the stored last-update
\* time: the entry is a u64 and t < last_update + 43200, in exact arithmetic
ElapsedWithinWindow(cfg, t) ==
    /\ ParseEntry(cfg.last_update) # NoneOpt
    /\ BigLess(Digits(t), BigAdd(ParseEntry(cfg.last_update)[1], Digits(TwelveHours)))

\* the conditions under which the run is to be skipped
SkipExpected ==
    /\ config.last_ipv4 = Some(v4_ip)
    /\ config.last_ipv6 = Some(v6_ip)
    /\ ~force
    /\ ElapsedWithinWindow(config, now)

\* the run has not entered the loop: no pair resolved, no request sent
NoPairTouched == last = NoPair /\ attempted = {} /\ puts = <<>>

\* C11 as stated: the run is skipped, sending no provider request, exactly
\* when both stored addresses equal the discovered ones, force is not set
\* and less than 43200 seconds have elapsed since the stored last-update
\* time; in every other case the loop is entered.
C11_SkipsExactlyWithinWindow ==
    pc # "start" =>
        /\ pc = "skipped" <=> SkipExpected
        /\ pc = "skipped" => NoPairTouched
        /\ (pc = "panicked" /\ ~SkipExpected) => ~NoPairTouched

\* C11 where the addition of line 235 does not overflow: the run is skipped
\* exactly under the stated conditions
C11_SkipsExactlyWithoutOverflow ==
    ~ShortCircuitOverflows(config, v4_ip, v6_ip, force) => C11_SkipsExactlyWithinWindow

----------------------------------------------------------------------------
(* Properties of the client calls: failures *)

\* C12 as stated: a GET or PUT answered by a success envelope without
\* result returns an error value to its caller, and the process goes on.
C12_NoResultIsAnError ==
    call.x.kind = "nores" => (call.res.kind = "Err" /\ pc = "ready")

----------------------------------------------------------------------------
(* The cache specification: operations called directly on one Cache *)

\* The arguments of the operations.  The cache takes any strings: these
\* domains and types contain the '_' that the key is joined with.
CacheZoneIds == {ZoneId(1), ZoneId(2)}
CacheDomains == {"b", "a_b"}
CacheTypes == {"A", "A_a"}
CacheRecords == {[id |-> RecordId(1, 1), zone_id |-> ZoneId(1), content |-> NewV4],
                 [id |-> RecordId(2, 1), zone_id |-> ZoneId(2), content |-> OldV4]}

NoRecord == [id |-> "", zone_id |-> "", content |-> <<>>]

\* an entry of hist
CacheOp(op, domain, record_type, record) ==
    [op |-> op, domain |-> domain, record_type |-> record_type, record |-> record]

CacheInit ==
    /\ zones = NewCache.zones
    /\ dns_records = NewCache.dns_records
    /\ hist = <<>> /\ NoFiles
    /\ pzones = <<>> /\ remote = <<>>
    /\ pc = "ready"
    /\ ncalls = 0 /\ call = NoCall /\ prev = Summary(NoCall)
    /\ IdleRun

\* the state after a cache operation that left the cache c
CacheDid(c, op) ==
    /\ zones' = c.zones
    /\ dns_records' = c.dns_records
    /\ hist' = Append(hist, op)
    /\ UNCHANGED <<pzones, remote, pc, clientVars, runVars, fileVars>>

AddZone ==
    /\ Len(hist) < MaxOps
    /\ \E z \in CacheZoneIds :
         CacheDid(add_zone(TheCache, z),
                  CacheOp("add_zone", "", "", [NoRecord EXCEPT !.zone_id = z]))

SetRecord ==
    /\ Len(hist) < MaxOps
    /\ \E d \in CacheDomains, t \in CacheTypes, r \in CacheRecords :
         CacheDid(set_dns_record(TheCache, d, t, r.id, r.zone_id, r.content),
                  CacheOp("set_dns_record", d, t, r))

CacheNext == AddZone \/ SetRecord

CacheSpec == CacheInit /\ [][CacheNext]_vars

\* add_zone has been called on the cache
ZoneAdded == \E i \in 1..Len(hist) : hist[i].op = "add_zone"

\* C13: zones_cached() is false in every state before the first add_zone
\* call on a cache and true in every state after it.
C13_ZonesCachedIffZoneAdded == zones_cached(TheCache) <=> ZoneAdded

C13_Witness ==
    /\ Len(hist) = MaxOps
    /\ hist[1].op = "set_dns_record"
    /\ hist[2].op = "add_zone"
    /\ hist[Len(hist)].op = "set_dns_record"
    /\ zones_cached(TheCache)

\* the set_dns_record calls made with exactly the pair (d, t)
SetsOf(d, t) ==
    {i \in 1..Len(hist) : /\ hist[i].op = "set_dns_record"
                          /\ hist[i].domain = d
                          /\ hist[i].record_type = t}

\* the record of the most recent of them, None when there is none
LastSet(d, t) ==
    IF SetsOf(d, t) = {} THEN NoneOpt
    ELSE Some(hist[CHOOSE i \in SetsOf(d, t) :
                       \A j \in SetsOf(d, t) : j <= i].record)

\* C14 as stated: over arbitrary domain and type strings,
\* get_dns_record(d, t) is nothing when set_dns_record was never called
\* with exactly (d, t), and otherwise exactly the record of the most recent
\* set_dns_record with exactly (d, t).
C14_GetReturnsLastSetOfPair ==
    \A d \in CacheDomains, t \in CacheTypes :
        get_dns_record(TheCache, d, t) = LastSet(d, t)

\* C14 while every type passed to the cache is free of '_' (the record
\* types of the client are A and AAAA): there the key is unambiguous
C14_GetReturnsLastSetOfPlainTypes ==
    (\A i \in 1..Len(hist) : hist[i].op = "set_dns_record" => hist[i].record_type = "A")
        => \A d \in CacheDomains : get_dns_record(TheCache, d, "A") = LastSet(d, "A")

----------------------------------------------------------------------------
(* Properties of the client calls: what the cache holds *)

\* the request of the last call that failed, None when none did
FailedRequest ==
    IF call.x.fail = 0 THEN NoneOpt ELSE Some(call.reqs[call.x.fail])

\* C15: in every state of a client, also after a failed GET zones or a
\* failed GET dns_records, the cached zone list is empty or the complete
\* list of the one successful GET zones response, in its order; once it is
\* not empty no call changes it or sends GET zones.
C15_ZoneListAllOrNothing ==
    /\ zones = <<>> \/ zones = pzones
    /\ Count(ReqZones, call.reqs) <= 1
    /\ FailedRequest = Some(ReqZones) => call.after.zones = <<>>
    /\ (Count(ReqZones, call.reqs) = 1 /\ FailedRequest # Some(ReqZones))
           => call.after.zones = pzones
    /\ call.before.zones # <<>> =>
           /\ call.after.zones = call.before.zones
           /\ Count(ReqZones, call.reqs) = 0

C15_Witness ==
    /\ Len(pzones) = MaxZones
    /\ prev.op = "resolve"
    /\ Count(ReqZones, prev.reqs) = 1
    /\ call.before.zones = pzones
    /\ call.reqs # <<>>
    /\ FailedRequest = Some(ReqRecords(pzones[1]))

\* the listing the n-th request of the last call received: the records of
\* its zone when it is a GET dns_records that did not fail, else nothing
ListingReceived(n) ==
    IF n = call.x.fail THEN <<>>
    ELSE IF \E i \in 1..Len(call.after.zones) :
                call.reqs[n] = ReqRecords(call.after.zones[i])
    THEN call.listed[CHOOSE z \in DOMAIN call.listed : call.reqs[n] = ReqRecords(z)]
    ELSE <<>>

\* the positions of the records of (d, t) in a listing
HitsIn(listing, d, t) ==
    {j \in 1..Len(listing) : listing[j].name = d /\ listing[j].record_type = t}

RECURSIVE ObservedUpTo(_, _, _)
\* the content of (d, t) the process last observed, counting the cache
\* before the last call and the listings its first n requests received
ObservedUpTo(n, d, t) ==
    IF n = 0
    THEN IF get_dns_record(call.before, d, t) = NoneOpt THEN NoneOpt
         ELSE Some(get_dns_record(call.before, d, t)[1].content)
    ELSE IF HitsIn(ListingReceived(n), d, t) = {} THEN ObservedUpTo(n - 1, d, t)
    ELSE Some(ListingReceived(n)[
             CHOOSE j \in HitsIn(ListingReceived(n), d, t) :
                 \A k \in HitsIn(ListingReceived(n), d, t) : k <= j].content)

\* the content of (d, t) the process last observed or wrote
LastObservedOrWritten(d, t) ==
    IF PutVerified /\ call.domain = d /\ call.record_type = t THEN call.content
    ELSE ObservedUpTo(Len(call.reqs), d, t)

\* the content the cache holds for (d, t), None when it holds no entry
CachedContent(d, t) ==
    IF get_dns_record(TheCache, d, t) = NoneOpt THEN NoneOpt
    ELSE Some(get_dns_record(TheCache, d, t)[1].content)

\* C16: after any sequence of resolve and update calls, the content cached
\* for a pair is the most recent value the process received for it in a
\* record listing or wrote to it through a verified update, whichever came
\* later; a pair never listed nor written has no entry.
C16_CacheHoldsLastObservedOrWritten ==
    \A d \in {DomainName(1), DomainName(2)}, t \in RecordTypes :
        CachedContent(d, t) = LastObservedOrWritten(d, t)

\* a verified update wrote NewV4, then a resolve of another pair listed
\* the zones again and the cache took the listed value
C16_Witness ==
    /\ prev.op = "update"
    /\ call.op = "resolve"
    /\ call.reqs # <<>>
    /\ call.x.fail = 0
    /\ get_dns_record(call.before, DomainName(1), "A") # NoneOpt
    /\ CachedContent(DomainName(1), "A") # NoneOpt
    /\ Len(pzones) = MaxZones

----------------------------------------------------------------------------
(* The rewrite specification: the suffix rewrites of update_domains alone *)

\* the texts made of at most n parts of S joined with sep
TextsUpTo(S, n, sep) == UNION {{Join(f, sep) : f \in [1..k -> S]} : k \in 0..n}

\* the discovered v4 addresses: four parts, among them "1.2.3.4"
V4Parts == {<<"1">>, <<"1", "0">>, <<"0">>}
V4Addresses == {Join(f, ".") : f \in [1..4 -> V4Parts]} \cup {NewV4}

\* the v4 suffixes: one to four parts
V4Suffixes == TextsUpTo({<<"9">>, <<"7", "7">>}, 4, ".") \ {<<>>}

\* the discovered v6 addresses: up to three groups, "::", up to two groups,
\* and one address written in full
V6Groups == {<<"a">>, <<"2", "0", "0", "1">>}
FullV6 == <<"a", ":", "b", ":", "c", ":", "d", ":", "e", ":", "f", ":", "1", ":", "2">>
\* malformed addresses: "::" with 8 and with 9 groups around it
OverfullV6 ==
    {<<"a", ":", "b", ":", "c", ":", "d", ":", "e", ":", "f", ":", "1",
       ":", ":", "2">>,
     FullV6 \o <<":", ":", "3">>}
V6Addresses ==
    {l \o <<":", ":">> \o r : l \in TextsUpTo(V6Groups, 3, ":"),
                             r \in TextsUpTo(V6Groups, 2, ":")}
        \cup {FullV6} \cup OverfullV6

\* the v6 suffixes: the last one to eight of these groups
V6SuffixGroups == <<<<"a", "b">>, <<"c", "d">>, <<"e">>, <<"f">>,
                    <<"1">>, <<"2">>, <<"3">>, <<"4">>>>
V6Suffixes == {Join(SubSeq(V6SuffixGroups, 9 - n, 8), ":") : n \in 1..8}

RewriteInit ==
    /\ zones = NewCache.zones
    /\ dns_records = NewCache.dns_records
    /\ pzones = <<>> /\ remote = <<>>
    /\ pc = "v4"
    /\ ncalls = 0 /\ call = NoCall /\ prev = Summary(NoCall)
    /\ hist = <<>> /\ NoFiles
    /\ idx = 1
    /\ \E s4 \in V4Suffixes \cup {V4Suffix}, s6 \in V6Suffixes \cup {V6Suffix} :
         /\ domains = <<Registration(DomainName(1), FALSE, Some(s4), FALSE, Some(s6))>>
         /\ \/ v4_ip \in V4Addresses /\ v6_ip = NewV6 /\ s6 = V6Suffix
            \/ v4_ip = NewV4 /\ s4 = V4Suffix /\ v6_ip \in V6Addresses
    /\ force = FALSE
    /\ config = <<>>
    /\ now = 0
    /\ last = NoPair
    /\ puts = <<>>
    /\ attempted = {}
    /\ zonesFailed = FALSE

\* the state after the rewrite of a pair returned or panicked
Rewrote(name, record_type, new_ip, next_pc) ==
    /\ last' = [NoPair EXCEPT !.domain = name, !.record_type = record_type,
                              !.new_ip = IF new_ip.panic THEN <<>> ELSE new_ip.val,
                              !.panic = new_ip.panic]
    /\ pc' = IF new_ip.panic THEN "panicked" ELSE next_pc
    /\ UNCHANGED <<zones, dns_records, pzones, remote, clientVars, hist, fileVars,
                   domains,
                   idx, v4_ip, v6_ip, force, config, now, puts, attempted,
                   zonesFailed>>

\* lines 245-248
RewriteV4 ==
    /\ pc = "v4"
    /\ Rewrote(domains[idx].domain, "A", NewIpV4(domains[idx], v4_ip), "v6")

\* lines 260-263
RewriteV6 ==
    /\ pc = "v6"
    /\ Rewrote(domains[idx].domain, "AAAA", NewIpV6(domains[idx], v6_ip),
               "done")

RewriteNext == RewriteV4 \/ RewriteV6

RewriteSpec == RewriteInit /\ [][RewriteNext]_vars

\* r is the parts a with the last Len(sfx) of them replaced by sfx
TailReplaced(r, a, sfx) ==
    /\ Len(r) = Len(a)
    /\ \A i \in 1..Len(r) :
         r[i] = IF i <= Len(a) - Len(sfx) THEN a[i]
                ELSE sfx[i - (Len(a) - Len(sfx))]

\* C17: for a 4-part dotted address and a suffix of N parts, 1 <= N <= 4,
\* the IPv4 rewrite returns the first 4 - N parts of the address followed
\* by the N suffix parts in order, joined with '.': 4 parts in all.
C17_Ipv4SuffixReplacesTail ==
    last.record_type = "A" =>
        /\ ~last.panic
        /\ Len(Split(last.new_ip, ".")) = 4
        /\ TailReplaced(Split(last.new_ip, "."), Split(v4_ip, "."),
                        Split(domains[1].v4_suffix[1], "."))

\* rewrite("1.2.3.4", "9.9") = "1.2.9.9"
C17_Witness ==
    /\ last.record_type = "A"
    /\ v4_ip = <<"1", ".", "2", ".", "3", ".", "4">>
    /\ domains[1].v4_suffix = Some(<<"9", ".", "9">>)
    /\ last.new_ip = <<"1", ".", "2", ".", "9", ".", "9">>

\* the groups of one side of "::": none when the side is empty
GroupsOf(side) == IF side = <<>> THEN <<>> ELSE Split(side, ":")

\* the eight groups an address stands for: the groups left of "::", then
\* "0000" for each missing group, then the groups right of it
ExpandedGroups(ip) ==
    IF ~ContainsPair(ip, ":") THEN Split(ip, ":")
    ELSE LET l == GroupsOf(SplitPair(ip, ":")[1])
             r == GroupsOf(SplitPair(ip, ":")[2])
         IN  l \o [i \in 1..(8 - Len(l) - Len(r)) |-> ZeroGroup] \o r

\* the last pair was AAAA, rewritten from an address containing "::"
RewroteCompressedV6 == last.record_type = "AAAA" /\ ContainsPair(v6_ip, ":")

\* the result of the last rewrite is the expansion of the address, eight
\* non-empty groups, with its last N groups replaced by the suffix groups
ExpandedAndReplaced ==
    /\ ~last.panic
    /\ Len(Split(last.new_ip, ":")) = 8
    /\ \A i \in 1..Len(Split(last.new_ip, ":")) :
           Split(last.new_ip, ":")[i] # <<>>
    /\ TailReplaced(Split(last.new_ip, ":"), ExpandedGroups(v6_ip),
                    Split(domains[1].v6_suffix[1], ":"))

\* C18 as stated: for every address containing "::", also at its start or
\* end, the IPv6 rewrite expands it to 8 non-empty groups, "0000" filling
\* the gap, and returns the first 8 - N expanded groups followed by the N
\* suffix groups.
C18_Ipv6ExpandsThenReplacesTail == RewroteCompressedV6 => ExpandedAndReplaced

\* C18 for the addresses with a group on both sides of "::" and fewer
\* than 8 groups in all
C18_Ipv6ExpandsBetweenGroups ==
    (/\ RewroteCompressedV6
     /\ SplitPair(v6_ip, ":")[1] # <<>>
     /\ SplitPair(v6_ip, ":")[2] # <<>>
     /\ v6_ip \notin OverfullV6) => ExpandedAndReplaced

----------------------------------------------------------------------------
(* Properties of the client calls: single attempts and unresolved records *)

\* no request of the last call was sent twice
NoRequestRepeated ==
    \A i, j \in 1..Len(call.reqs) : i # j => call.reqs[i] # call.reqs[j]

\* the request that failed, if one did, is the last request of the call
FailureEndsCall == call.x.fail > 0 => call.x.fail = Len(call.reqs)

\* C19 as stated: every provider call is attempted once: a call sends at
\* most one PUT whatever its outcome, a failed request is not sent again,
\* and the failure is returned to the caller.
C19_SingleAttemptFailureReturned ==
    /\ CountPuts(call.reqs) <= 1
    /\ NoRequestRepeated
    /\ FailureEndsCall
    /\ call.x.fail > 0 => call.res.kind = "Err"

\* C19 without the return: no request is retried, and a failure ends the
\* call, with an error when the exchange failed and with a panic when the
\* envelope had no result
C19_SingleAttempt ==
    /\ CountPuts(call.reqs) <= 1
    /\ NoRequestRepeated
    /\ FailureEndsCall
    /\ call.x.fail > 0 =>
           call.res.kind = IF call.x.kind = "err" THEN "Err" ELSE "Panic"

\* the last call was an update whose resolve step found no record: the cache
\* it left holds none for the pair, or one of its GET requests failed
UpdateUnresolved ==
    /\ call.op = "update"
    /\ \/ EntryIn(call.mid) = NoneOpt
       \/ call.x.fail > 0 /\ call.reqs[call.x.fail].method = "GET"

\* C20 as stated, for the update: when the record of the pair cannot be
\* resolved the update returns a not-found error and sends no PUT.
C20_UnresolvedUpdateIsNotFound ==
    UpdateUnresolved =>
        /\ call.res = Err("Unable to find record for domain (Cause)")
        /\ CountPuts(call.reqs) = 0

\* C20 as stated, for the run: a pair whose record cannot be resolved is
\* reported and skipped without a PUT, with or without --force.
C20_UnresolvedPairIsSkipped ==
    (last.domain # "" /\ ~ResolvedOk) =>
        /\ last.report = ReportNotFound
        /\ CountPuts(last.reqs) = 0
        /\ PutsOf(LastKey) = 0
        /\ pc # "panicked"

\* C20 where no request is answered by an envelope without result
C20_UnresolvedPairIsSkippedBarringPanic ==
    (last.x.kind # "nores") => C20_UnresolvedPairIsSkipped

----------------------------------------------------------------------------
(* Properties of the rewrite: malformed IPv6 addresses *)

\* the last pair was AAAA, rewritten from an address with "::" whose left
\* and right group counts sum to 8 or more
RewroteOverfullV6 ==
    /\ RewroteCompressedV6
    /\ Len(GroupsOf(SplitPair(v6_ip, ":")[1]))
           + Len(GroupsOf(SplitPair(v6_ip, ":")[2])) >= 8

\* the last rewrite gave no address and the process goes on
RewriteRejected == ~last.panic /\ last.new_ip = <<>> /\ pc # "panicked"

\* C21 as stated: for an address with "::" whose group counts sum to 8 or
\* more, the rewrite reports a validation error: it neither inserts groups
\* and returns an address nor aborts on the underflow of
\* 8 - leftCount - rightCount.
C21_OverfullIpv6IsRejected == RewroteOverfullV6 => RewriteRejected

----------------------------------------------------------------------------
(* Properties of the client calls: a population cut short *)

\* the zones, in cache order, whose GET dns_records is the request that
\* failed in the last call, a resolve: one zone, or none
FailedZones ==
    {k \in 1..Len(pzones) :
        /\ call.op = "resolve"
        /\ FailedRequest = Some(ReqRecords(pzones[k]))}

\* every record listed by a zone before the k-th has an entry in the cache
\* the call left, written from its zone or from a later one before the k-th
EarlierZonesCached(k) ==
    \A i \in 1..(k - 1) : \A j \in 1..Len(call.listed[pzones[i]]) :
        LET r == call.listed[pzones[i]][j]
        IN  /\ get_dns_record(call.after, r.name, r.record_type) # NoneOpt
            /\ get_dns_record(call.after, r.name, r.record_type)[1].zone_id
                   \in {pzones[m] : m \in i..(k - 1)}

\* a resolve whose pair the cache holds answers from it without a request
ResolveFromCache ==
    (call.op = "resolve" /\ EntryIn(call.before) # NoneOpt) =>
        /\ call.reqs = <<>>
        /\ call.res = Ok(EntryIn(call.before)[1])

\* C22 as stated: when the GET dns_records of the k-th zone fails in a
\* resolve, the resolve returns that error, sends no request for a later
\* zone and leaves in the cache the records written from zones 1..k-1, so
\* that a later resolve of a name of those zones answers from the cache
\* with no request.
C22_FailedZoneKeepsEarlierRecords ==
    /\ \A k \in FailedZones :
         /\ call.res = Err("Error in request to Cloudflare API")
         /\ FailureEndsCall
         /\ EarlierZonesCached(k)
    /\ ResolveFromCache

\* C22 where the failure is an error and not an envelope without result
C22_FailedZoneKeepsEarlierRecordsBarringPanic ==
    /\ \A k \in FailedZones :
         /\ call.x.kind = "err" =>
                call.res = Err("Error in request to Cloudflare API")
         /\ FailureEndsCall
         /\ EarlierZonesCached(k)
    /\ ResolveFromCache

-----------------------------------------------------------------------------
(* The target of an update's PUT *)

\* the greatest member of a non-empty set of numbers
LastOf(S) == CHOOSE j \in S : \A k \in S : k <= j

\* the requests of the last call that were a PUT
PutRequests == {n \in 1..Len(call.reqs) : call.reqs[n].method = "PUT"}

\* the requests of the last call that received a listing holding (d, t)
ListingsOf(d, t) ==
    {n \in 1..Len(call.reqs) : HitsIn(ListingReceived(n), d, t) # {}}

\* the zone whose record listing request number n asked for
ZoneOfRequest(n) ==
    CHOOSE z \in DOMAIN call.listed : call.reqs[n] = ReqRecords(z)

\* the zone id and record id of the last record of (d, t) in the listing
\* the last call received most recently; those of the entry the cache held
\* before the call when it received no listing holding the pair
LastListedTarget(d, t) ==
    IF ListingsOf(d, t) = {}
    THEN IF get_dns_record(call.before, d, t) = NoneOpt THEN NoneOpt
         ELSE Some(<<get_dns_record(call.before, d, t)[1].zone_id,
                     get_dns_record(call.before, d, t)[1].id>>)
    ELSE LET n == LastOf(ListingsOf(d, t))
         IN  Some(<<ZoneOfRequest(n),
                    ListingReceived(n)[LastOf(HitsIn(ListingReceived(n), d, t))].id>>)

\* the zone id and record id of the entry the resolve step of the last
\* call left for (d, t)
ResolvedTarget(d, t) ==
    IF get_dns_record(call.mid, d, t) = NoneOpt THEN NoneOpt
    ELSE Some(<<get_dns_record(call.mid, d, t)[1].zone_id,
                get_dns_record(call.mid, d, t)[1].id>>)

\* the cached zones that list a record of the pair of the last call
ZonesListing ==
    {i \in 1..Len(call.mid.zones) :
        HitsIn(call.listed[call.mid.zones[i]], call.domain, call.record_type)
            # {}}

\* the PUT of the last call went to the record of the resolved cache entry
\* of its pair, carrying the requested content
PutToResolvedEntry ==
    \A n \in PutRequests :
        /\ n = Len(call.reqs)
        /\ EntryIn(call.mid) # NoneOpt
        /\ call.reqs[n] =
               [method |-> "PUT",
                path |-> "zones/" \o EntryIn(call.mid)[1].zone_id
                             \o "/dns_records/" \o EntryIn(call.mid)[1].id,
                body |-> call.content]

\* C23 as stated: the PUT of every update goes to the zone id and record id
\* of the cache entry resolved at the start of the update, and when several
\* zones list a record of that name and type that entry is the one from the
\* zone last in cache order.
C23_Original ==
    (call.op = "update" /\ PutRequests # {}) =>
        /\ PutToResolvedEntry
        /\ ZonesListing # {} =>
               EntryIn(call.mid)[1].zone_id = call.mid.zones[LastOf(ZonesListing)]

\* C23, amended: the PUT of every update goes to the zone id and record id
\* of the cache entry resolved at the start of the update; that entry is the
\* one from the listing holding the pair that the process received most
\* recently, which is the last zone in cache order listing it when the
\* update's own resolve missed the cache and received every listing.
C23_PutTargetsLastReceivedListing ==
    /\ call.op = "update" => PutToResolvedEntry
    /\ \A d \in {DomainName(1), DomainName(2)}, t \in RecordTypes :
           ResolvedTarget(d, t) = LastListedTarget(d, t)
    /\ (/\ call.op = "update"
        /\ PutRequests # {}
        /\ EntryIn(call.before) = NoneOpt
        /\ ZonesListing # {}) =>
           EntryIn(call.mid)[1].zone_id = call.mid.zones[LastOf(ZonesListing)]

\* an update that missed the cache, listed two zones that both hold the
\* pair and sent its PUT to the record of the second
C23_Witness ==
    /\ call.op = "update"
    /\ EntryIn(call.before) = NoneOpt
    /\ Cardinality(ZonesListing) = 2
    /\ PutRequests = {Len(call.reqs)}
    /\ call.reqs[Len(call.reqs)].path =
           "zones/" \o ZoneId(2) \o "/dns_records/" \o RecordId(2, 1)
    /\ call.res.kind = "Ok"

-----------------------------------------------------------------------------
(* The registration list: register_domain and delete_domain *)

\* the contents domains.json can have: none, no bytes, the JSON text of a
\* list of registrations, or bytes that are not such a text
EmptyFile == [kind |-> "empty"]
UnparsableFile == [kind |-> "unparsable"]
JsonFile(list) == [kind |-> "json", list |-> list]

\* process::exit(1)
Exited == [panic |-> FALSE, exited |-> TRUE]

\* Config::read_domains, where r says what the file system does: a file
\* that cannot be opened reads as "[]", as does one without bytes
read_domains(file, r) ==
    IF r = "open_failed" \/ file.kind = "missing" THEN Returned(<<>>)
    ELSE IF r = "read_failed" THEN Exited
    ELSE IF file.kind = "empty" THEN Returned(<<>>)
    ELSE IF file.kind = "unparsable" THEN Exited
    ELSE Returned(file.list)

\* Config::write_domains, where w says what the file system does:
\* File::create may fail, and write_all may fail after File::create has
\* truncated the file, before or after its first bytes were written
write_domains(file, list, w) ==
    IF w = "ok" THEN [file |-> JsonFile(list), res |-> Ok(<<>>)]
    ELSE IF w = "create_failed"
    THEN [file |-> file, res |-> Err("Unable to write")]
    ELSE IF w = "truncated"
    THEN [file |-> EmptyFile, res |-> Err("Unable to write")]
    ELSE [file |-> UnparsableFile, res |-> Err("Unable to write")]

\* domains.retain(|x| x.domain != *domain)
Retain(list, domain) == SelectSeq(list, LAMBDA x : x.domain # domain)

\* AlreadyRegistered with the check left out
NeverRegistered(list, domain) == FALSE

\* the loop of register_domain that looks for the domain
AlreadyRegistered(list, domain) ==
    \E i \in 1..Len(list) : list[i].domain = domain

\* what a command did: the file it left and what it printed
Done(file, out) == [file |-> file, out |-> out]

\* the end of both commands: the message after write_domains
AfterWrite(written, ok) ==
    Done(written.file, IF written.res.kind = "Ok" THEN ok ELSE "write error")

delete_domain(file, domain, r, w) ==
    IF read_domains(file, r) = Exited THEN Done(file, "exited")
    ELSE LET list == read_domains(file, r).val
         IN  IF Len(Retain(list, domain)) # Len(list)
             THEN AfterWrite(write_domains(file, Retain(list, domain), w),
                             "deleted")
             ELSE Done(file, "not registered")

register_domain(file, new_domain, r, w) ==
    IF read_domains(file, r) = Exited THEN Done(file, "exited")
    ELSE LET list == read_domains(file, r).val
         IN  IF AlreadyRegistered(list, new_domain.domain)
             THEN Done(file, "already registered")
             ELSE AfterWrite(write_domains(file, Append(list, new_domain), w),
                             "registered")

\* the domains and options of the commands; two names differ in case only
RegistryDomains == {DomainName(1), DomainName(2), "D1.example"}
RegistryOptions ==
    {[disable_v4 |-> FALSE, v4_suffix |-> NoneOpt,
      disable_v6 |-> FALSE, v6_suffix |-> NoneOpt],
     [disable_v4 |-> FALSE, v4_suffix |-> Some(V4Suffix),
      disable_v6 |-> TRUE, v6_suffix |-> NoneOpt]}
ReadOutcomes == {"ok", "open_failed", "read_failed"}
WriteOutcomes == {"ok", "create_failed", "truncated", "partial"}

\* no two registrations of list have the same domain
DuplicateFree(list) ==
    \A i, j \in 1..Len(list) : list[i].domain = list[j].domain => i = j

\* the lists of up to two registrations without duplicate domains
InitialLists ==
    {<<>>}
    \cup {<<Registration(d, o.disable_v4, o.v4_suffix, o.disable_v6,
                         o.v6_suffix)>> :
             d \in RegistryDomains, o \in RegistryOptions}
    \cup {l \in {<<Registration(d1, FALSE, NoneOpt, FALSE, NoneOpt),
                   Registration(d2, FALSE, Some(V4Suffix), TRUE, NoneOpt)>> :
                     d1 \in RegistryDomains, d2 \in RegistryDomains} :
             DuplicateFree(l)}

NoCommand == [op |-> "none"]

RegistryInit ==
    /\ zones = NewCache.zones
    /\ dns_records = NewCache.dns_records
    /\ pzones = <<>> /\ remote = <<>>
    /\ pc = "ready"
    /\ ncalls = 0 /\ call = NoCall /\ prev = Summary(NoCall)
    /\ hist = <<>>
    /\ domains = <<>> /\ idx = 0 /\ v4_ip = <<>> /\ v6_ip = <<>>
    /\ force = FALSE /\ config = <<>> /\ now = 0
    /\ puts = <<>> /\ attempted = {} /\ zonesFailed = FALSE
    /\ last = NoCommand
    /\ config_file = NoFile
    /\ domains_file \in {NoFile, EmptyFile} \cup {JsonFile(l) : l \in InitialLists}

\* the state after a command that did d
Commanded(op, domain, r, w, d) ==
    /\ domains_file' = d.file
    /\ last' = [op |-> op, domain |-> domain, read |-> r, write |-> w,
                before |-> domains_file, out |-> d.out]
    /\ UNCHANGED <<zones, dns_records, pzones, remote, pc, clientVars, hist,
                   domains, idx, v4_ip, v6_ip, force, config, now, puts,
                   attempted, zonesFailed, config_file>>

\* cloudflare-ddns register <domain> [options]
Register ==
    \E d \in RegistryDomains, o \in RegistryOptions,
       r \in ReadOutcomes, w \in WriteOutcomes :
        Commanded("register", d, r, w,
            register_domain(domains_file,
                Registration(d, o.disable_v4, o.v4_suffix, o.disable_v6,
                             o.v6_suffix),
                r, w))

\* cloudflare-ddns delete <domain>
Delete ==
    \E d \in RegistryDomains, r \in ReadOutcomes, w \in WriteOutcomes :
        Commanded("delete", d, r, w, delete_domain(domains_file, d, r, w))

RegistryNext == Register \/ Delete

RegistrySpec == RegistryInit /\ [][RegistryNext]_vars

\* the registration list a file persists: none when it cannot be parsed
PersistedList(file) ==
    IF file.kind = "json" THEN Some(file.list)
    ELSE IF file.kind = "unparsable" THEN NoneOpt
    ELSE Some(<<>>)

\* list without its k-th element
Without(list, k) ==
    [i \in 1..(Len(list) - 1) |-> IF i < k THEN list[i] ELSE list[i + 1]]

\* the last command read the file and, where it wrote, wrote it without an
\* error of the file system
CommandWentThrough ==
    /\ last.op \in {"register", "delete"}
    /\ last.read = "ok"
    /\ last.out \notin {"exited", "write error"}

\* the domain of the last command was registered before it
WasRegistered ==
    /\ PersistedList(last.before) # NoneOpt
    /\ \E i \in 1..Len(PersistedList(last.before)[1]) :
           PersistedList(last.before)[1][i].domain = last.domain

\* C24: starting from a list without duplicate domains, after any sequence
\* of register and delete commands the persisted list has no two
\* registrations of the same domain; a register of a registered domain
\* leaves the list as it was, a delete of a registered domain removes
\* exactly that registration and keeps the order of the others, and a delete
\* of a domain not registered leaves the list as it was.
C24_NoDuplicateRegistrations ==
    /\ PersistedList(domains_file) # NoneOpt =>
           DuplicateFree(PersistedList(domains_file)[1])
    /\ (CommandWentThrough /\ last.op = "register" /\ WasRegistered) =>
           domains_file = last.before
    /\ (CommandWentThrough /\ last.op = "delete" /\ WasRegistered) =>
           \E k \in 1..Len(last.before.list) :
               /\ last.before.list[k].domain = last.domain
               /\ domains_file = JsonFile(Without(last.before.list, k))
    /\ (CommandWentThrough /\ last.op = "delete" /\ ~WasRegistered) =>
           domains_file = last.before

\* a delete removed the first of three registrations, the last of which a
\* register had appended
C24_Witness ==
    /\ CommandWentThrough
    /\ last.op = "delete"
    /\ last.out = "deleted"
    /\ Len(last.before.list) = 3
    /\ last.before.list[1].domain = last.domain
    /\ Len(domains_file.list) = 2

-----------------------------------------------------------------------------
(* The config file: parse_config, its two processors and set_config_entry *)

\* A text is a sequence of characters.  A word of ordinary characters (one
\* that is not white space, '=', '#' or a line break) counts as one
\* character: the code looks inside a word only to compare it with another.
TextFile(text) == [kind |-> "text", text |-> text]

\* char::is_whitespace, for the characters of the model
WhiteSpace == {" ", "\t", "\r", "\n"}

RECURSIVE TrimStart(_)
TrimStart(s) ==
    IF s # <<>> /\ Head(s) \in WhiteSpace THEN TrimStart(Tail(s)) ELSE s

RECURSIVE TrimEnd(_)
TrimEnd(s) ==
    IF s # <<>> /\ s[Len(s)] \in WhiteSpace
    THEN TrimEnd(SubSeq(s, 1, Len(s) - 1)) ELSE s

\* str::trim
Trim(s) == TrimEnd(TrimStart(s))

\* str::lines: the pieces between line breaks, without the empty piece
\* after a final line break and without a carriage return at a line's end
StrLines(text) ==
    LET pieces == Split(text, "\n")
        kept == IF pieces[Len(pieces)] = <<>>
                THEN SubSeq(pieces, 1, Len(pieces) - 1) ELSE pieces
    IN  [i \in 1..Len(kept) |->
            IF kept[i] # <<>> /\ kept[i][Len(kept[i])] = "\r"
            THEN SubSeq(kept[i], 1, Len(kept[i]) - 1) ELSE kept[i]]

\* str::find(c): the position of the first c, 0 when there is none
Find(s, c) ==
    IF \E i \in 1..Len(s) : s[i] = c
    THEN CHOOSE i \in 1..Len(s) : s[i] = c /\ \A j \in 1..(i - 1) : s[j] # c
    ELSE 0

\* the calls parse_config makes on its processor
Comment(line) == [call |-> "process_comment", line |-> line]
Entry(key, value) ==
    [call |-> "process_config_entry", key |-> key, value |-> value]

\* one turn of the loop of parse_config, for a line that is neither empty
\* nor a comment: parts are the pieces of the line before its '#'
EntryCalls(parts, comment) ==
    IF Len(parts) # 2 THEN [valid |-> FALSE, calls |-> <<>>]
    ELSE [valid |-> TRUE,
          calls |-> <<Entry(Trim(parts[1]), Trim(parts[2]))>>
                        \o IF Len(comment) > 0 THEN <<Comment(comment)>>
                           ELSE <<>>]

\* one turn of the loop of parse_config
LineCalls(orig_line) ==
    LET line == Trim(orig_line)
        i == Find(line, "#")
    IN  IF Len(line) = 0 \/ line[1] = "#"
        THEN [valid |-> TRUE, calls |-> <<Comment(orig_line)>>]
        ELSE IF i = 0 THEN EntryCalls(Split(Trim(line), "="), <<>>)
        ELSE EntryCalls(Split(Trim(SubSeq(line, 1, i - 1)), "="),
                        SubSeq(line, i, Len(line)))

RECURSIVE parse_config(_)
\* parse_config: what it returns and the calls it made on its processor
\* before it returned
parse_config(lines) ==
    IF lines = <<>> THEN [valid |-> TRUE, calls |-> <<>>]
    ELSE LET first == LineCalls(Head(lines))
             rest == parse_config(Tail(lines))
         IN  IF ~first.valid THEN [valid |-> FALSE, calls |-> <<>>]
             ELSE [valid |-> rest.valid, calls |-> first.calls \o rest.calls]

RECURSIVE ConfigReader(_, _)
\* the config_entries a ConfigReader holds after the calls, from entries
ConfigReader(entries, calls) ==
    IF calls = <<>> THEN entries
    ELSE IF Head(calls).call = "process_comment"
    THEN ConfigReader(entries, Tail(calls))
    ELSE ConfigReader((Head(calls).key :> Head(calls).value) @@ entries,
                      Tail(calls))

\* ConfigWriter::process_config_entry: what it pushes
WriteEntry(new_key, new_value, key, value) ==
    key \o <<"=">> \o (IF new_key = key THEN new_value ELSE value) \o <<"\n">>

RECURSIVE ConfigWriter(_, _, _)
\* the new_content a ConfigWriter holds after the calls
ConfigWriter(new_key, new_value, calls) ==
    IF calls = <<>> THEN <<>>
    ELSE (IF Head(calls).call = "process_comment"
          THEN Head(calls).line \o <<"\n">>
          ELSE WriteEntry(new_key, new_value, Head(calls).key,
                          Head(calls).value))
         \o ConfigWriter(new_key, new_value, Tail(calls))

\* read_file(..).unwrap_or("".to_string())
ContentsOf(file) == IF file.kind = "text" THEN file.text ELSE <<>>

\* Config::read_config: the entries of the calls made, valid file or not
read_config(file) ==
    ConfigReader(<<>>, parse_config(StrLines(ContentsOf(file))).calls)

\* Config::read_config_entry
read_config_entry(entries, key) ==
    IF key \in DOMAIN entries THEN Some(entries[key]) ELSE NoneOpt

\* the end of set_config_entry: File::create(..).unwrap() and write_all,
\* which fails after it has written the first n characters of new_content
WriteConfig(file, new_content, created, n) ==
    IF ~created THEN [file |-> file, res |-> Panic]
    ELSE IF n >= Len(new_content)
    THEN [file |-> TextFile(new_content), res |-> Ok(<<>>)]
    ELSE [file |-> TextFile(SubSeq(new_content, 1, n)),
          res |-> Err("Unable to write config file")]

\* Config::set_config_entry
set_config_entry(file, key, value, created, n) ==
    IF ~parse_config(StrLines(ContentsOf(file))).valid
    THEN [file |-> file, res |-> Err("Unable to parse config file")]
    ELSE WriteConfig(file,
             ConfigWriter(key, value,
                          parse_config(StrLines(ContentsOf(file))).calls),
             created, n)

\* login, where fetched is what fetch_cloudflare_zones returned
login(file, fetched, cloudflare_token, created, n) ==
    IF fetched.res.kind = "Panic" THEN [file |-> file, res |-> Panic]
    ELSE IF fetched.res.kind = "Ok"
    THEN set_config_entry(file, <<"cloudflare_token">>, cloudflare_token,
                          created, n)
    ELSE [file |-> file, res |-> Err("Failed to login")]

\* the lines of the config files at the start, and how many a file has
MaxLines == 2
ConfigLines ==
    {<<>>,
     <<"#", "c">>,
     <<"cloudflare_token", "=", "t1">>,
     <<" ", "domains_file", " ", "=", " ", "d.json", " ", "#", "c">>,
     <<"domains_file">>}
ConfigTexts ==
    UNION {{Join(l, "\n"), Join(l, "\n") \o <<"\n">>} :
              l \in UNION {[1..k -> ConfigLines] : k \in 0..MaxLines}}

\* the keys and values of the calls
ConfigKeys == {<<"cloudflare_token">>, <<"domains_file">>}
ConfigValues == {<<"t2">>, <<"t2", "=">>, <<" ", "t2">>}

\* what the file system does to the write of set_config_entry:
\* File::create fails, or it succeeds and write_all writes n characters
\* (MaxContent: all of them)
MaxContent == 12 * (MaxLines + 1)
WriteFaults ==
    {[created |-> FALSE, n |-> 0]}
    \cup {[created |-> TRUE, n |-> n] : n \in {0, MaxContent}}

\* the ways the request of login can go
LoginOracles ==
    {[fail |-> 0, kind |-> "err", echo |-> NoneOpt],
     [fail |-> 1, kind |-> "err", echo |-> NoneOpt],
     [fail |-> 1, kind |-> "nores", echo |-> NoneOpt]}

ConfigInit ==
    /\ zones = NewCache.zones
    /\ dns_records = NewCache.dns_records
    /\ pzones = <<>> /\ remote = <<>>
    /\ pc = "ready"
    /\ ncalls = 0 /\ call = NoCall /\ prev = Summary(NoCall)
    /\ hist = <<>>
    /\ domains = <<>> /\ idx = 0 /\ v4_ip = <<>> /\ v6_ip = <<>>
    /\ force = FALSE /\ config = <<>> /\ now = 0
    /\ puts = <<>> /\ attempted = {} /\ zonesFailed = FALSE
    /\ last = NoCommand
    /\ domains_file = NoFile
    /\ config_file \in {NoFile} \cup {TextFile(t) : t \in ConfigTexts}

\* the state after a command that wrote, or did not write, the config file
ConfigDid(op, key, value, d) ==
    /\ config_file' = d.file
    /\ last' = [op |-> op, key |-> key, value |-> value,
                before |-> config_file, res |-> d.res]
    /\ UNCHANGED <<zones, dns_records, pzones, remote, pc, clientVars, hist,
                   domains, idx, v4_ip, v6_ip, force, config, now, puts,
                   attempted, zonesFailed, domains_file>>

\* a caller's set_config_entry(key, value)
SetConfigEntry ==
    \E key \in ConfigKeys, value \in ConfigValues, w \in WriteFaults :
        ConfigDid("set_config_entry", key, value,
                  set_config_entry(config_file, key, value, w.created, w.n))

\* cloudflare-ddns login <token>
Login ==
    \E token \in ConfigValues, o \in LoginOracles, w \in WriteFaults :
        ConfigDid("login", <<"cloudflare_token">>, token,
                  login(config_file,
                        fetch_cloudflare_zones(NewCache,
                            [zones |-> ZoneSeq(1), records |-> <<>>], o, 0),
                        token, w.created, w.n))

ConfigNext == SetConfigEntry \/ Login

ConfigSpec == ConfigInit /\ [][ConfigNext]_vars

\* the config file was valid before the last call, which returned Ok
WroteValidConfig ==
    /\ last.op \in {"set_config_entry", "login"}
    /\ parse_config(StrLines(ContentsOf(last.before))).valid
    /\ last.res = Ok(<<>>)

\* re-reading the config file yields the value of the last call for its key
\* and the value read before the call for every other key
ReadsBackNewValue ==
    /\ read_config_entry(read_config(config_file), last.key) = Some(last.value)
    /\ \A k \in (DOMAIN read_config(config_file)
                    \cup DOMAIN read_config(last.before)) \ {last.key} :
           read_config_entry(read_config(config_file), k)
               = read_config_entry(read_config(last.before), k)

\* C25: for every valid config file content, key and value, after
\* set_config_entry(key, value) returns Ok, re-reading the config file
\* yields value for key and the previous value for every other key, whether
\* or not the file held the key before; a successful login persists the
\* token.
C25_SetEntryReadsBack == WroteValidConfig => ReadsBackNewValue

\* a text set_config_entry writes and parse_config reads back as it is
PlainValue(value) ==
    /\ Trim(value) = value
    /\ \A i \in 1..Len(value) : value[i] \notin {"=", "#", "\n"}

\* the round trip holds for a key the file held before the call and a value
\* without '=', '#', line break or white space at its ends
C25_SetEntryReadsBackPresentKey ==
    (/\ WroteValidConfig
     /\ last.key \in DOMAIN read_config(last.before)
     /\ PlainValue(last.value)) => ReadsBackNewValue

====
